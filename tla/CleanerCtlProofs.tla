-------------------------- MODULE CleanerCtlProofs --------------------------
(***************************************************************************)
(* Requests and answers of the cleaner's control channel match, for any    *)
(* number of clients and daemons, any sizes of the queues and all bounds.  *)
(***************************************************************************)
EXTENDS CleanerCtl, SequenceTheorems, TLAPS

CallRecord == [n : CallNos, cmd : Cmds \cup {"none"}, badpath : BOOLEAN]

QueueTypes ==
    /\ name \in 0..MaxStarts
    /\ reqs \in [Objects -> Seq(Request)] /\ rsps \in [Clients -> Seq(Response)]
    /\ \A q \in Objects : Len(reqs[q]) <= RequestMax
    /\ \A c \in Clients : Len(rsps[c]) <= ResponseMax
    /\ linked \subseteq Clients
    /\ late \subseteq Clients /\ performed \subseteq Clients \X CallNos
    /\ nstarts \in 0..MaxStarts

\* The daemon reads from a queue that exists, and has the queue open of the
\* client whose uuid it remembers, or none.
DaemonTypes ==
    /\ dpc \in {"down", "wait", "respond"}
    /\ recvq \in 0..MaxStarts
    /\ sendq \in Clients \cup {NoClient} /\ client_uuid \in Clients \cup {NoClient}
    /\ shutdown \in BOOLEAN
    /\ req \in Request \cup {NoRequest} /\ result \in BOOLEAN
    /\ dpc # "down" => recvq # 0
    /\ dpc = "respond" => req \in Request
    /\ sendq = NoClient \/ sendq = client_uuid

ClientTypes ==
    /\ cpc \in [Clients -> {"new", "idle", "clear", "send", "receive", "gone"}]
    /\ csendq \in [Clients -> 0..MaxStarts]
    /\ call \in [Clients -> CallRecord]
    /\ ret \in [Clients -> {"none", "ok", "error", "timeout"}]
    /\ taken \in [Clients -> Response \cup {NoResponse}]
    /\ \A c \in Clients : /\ cpc[c] = "new" => csendq[c] = 0
                          /\ cpc[c] \notin {"new", "gone"} => csendq[c] # 0
                          /\ cpc[c] \in {"clear", "send"} => call[c].cmd \in Cmds

\* Call m of client c can still be on its way: as a request in a queue, in the
\* hands of the daemon, or as a response.  It is the call going on, unless a
\* wait has timed out.
Due(c, m) ==
    /\ m <= call[c].n
    /\ cpc[c] \in {"clear", "send"} => m < call[c].n
    /\ c \notin late => /\ cpc[c] \in {"receive", "gone"}
                        /\ cpc[c] = "receive" => m = call[c].n

\* The requests of c in the queues: in one queue, in the order of the calls,
\* and not carried out yet.
ReqInv(c) ==
    \A q \in Objects : \A k \in 1..Len(reqs[q]) : reqs[q][k].from = c =>
        /\ q = csendq[c] /\ Due(c, reqs[q][k].n) /\ <<c, reqs[q][k].n>> \notin performed
        /\ \A l \in 1..k - 1 : reqs[q][l].from = c => reqs[q][l].n < reqs[q][k].n
        /\ dpc = "respond" /\ req.from = c => req.n < reqs[q][k].n
        /\ \A l \in 1..Len(rsps[c]) : rsps[c][l].n < reqs[q][k].n

\* The request of c the daemon has in hand.
HandledInv(c) ==
    dpc = "respond" /\ req.from = c =>
        /\ Due(c, req.n) /\ (result <=> <<c, req.n>> \in performed)
        /\ \A l \in 1..Len(rsps[c]) : rsps[c][l].n < req.n

\* The responses for c.
RspInv(c) ==
    \A k \in 1..Len(rsps[c]) :
        /\ rsps[c][k].to = c
        /\ Due(c, rsps[c][k].n) /\ (rsps[c][k].ack <=> <<c, rsps[c][k].n>> \in performed)
        /\ \A l \in 1..k - 1 : rsps[c][l].n < rsps[c][k].n
        /\ cpc[c] \in {"send", "receive"} => rsps[c][k].during = call[c].n

\* What has been carried out, and what was taken for the answer.
DoneInv(c) ==
    /\ \A m \in CallNos : <<c, m>> \in performed =>
          m <= call[c].n /\ (cpc[c] \in {"clear", "send"} => m < call[c].n)
    /\ c \notin late /\ cpc[c] = "idle" /\ taken[c] # NoResponse =>
          /\ taken[c].n = call[c].n
          /\ ret[c] = "ok" <=> <<c, call[c].n>> \in performed
    /\ taken[c] # NoResponse => taken[c].during = call[c].n
    /\ cpc[c] \notin {"idle", "gone"} => taken[c] = NoResponse

ChannelInv(c) == ReqInv(c) /\ HandledInv(c) /\ RspInv(c) /\ DoneInv(c)

\* The inductive invariant.
IInv ==
    /\ QueueTypes /\ DaemonTypes /\ ClientTypes
    /\ \A c \in Clients : ChannelInv(c)

-----------------------------------------------------------------------------
(***************************************************************************)
(* Records and queues.                                                     *)
(***************************************************************************)
\* Calls are numbered.
LEMMA CallNumbers ==
    /\ CallNos \subseteq Nat
    /\ \A c \in Clients, m \in CallNos : m < MaxCalls[c] => m + 1 \in CallNos
BY LimitsAssumption DEF CallNos

\* The fields of messages and calls.
LEMMA Fields ==
    /\ \A r \in Request : r.from \in Clients /\ r.n \in CallNos /\ r.cmd \in Cmds
    /\ \A r \in Response : /\ r.to \in Clients /\ r.n \in CallNos /\ r.ack \in BOOLEAN
                           /\ r.during \in CallNos
    /\ \A r \in CallRecord : r.n \in CallNos /\ r.badpath \in BOOLEAN
BY DEF Request, Response, CallRecord

\* A message is added to a queue.
LEMMA Appended ==
    ASSUME NEW S, NEW s \in Seq(S), NEW e \in S
    PROVE  /\ Append(s, e) \in Seq(S) /\ Len(Append(s, e)) = Len(s) + 1
           /\ \A k \in 1..Len(s) : Append(s, e)[k] = s[k]
           /\ Append(s, e)[Len(s) + 1] = e
OBVIOUS

\* The oldest message is taken.
LEMMA Taken ==
    ASSUME NEW S, NEW s \in Seq(S), s # <<>>
    PROVE  /\ Tail(s) \in Seq(S) /\ Len(Tail(s)) = Len(s) - 1 /\ Len(s) >= 1
           /\ \A k \in 1..Len(s) - 1 : Tail(s)[k] = s[k + 1]
           /\ Head(s) \in S /\ Head(s) = s[1]
OBVIOUS

-----------------------------------------------------------------------------
(***************************************************************************)
(* Types.                                                                  *)
(***************************************************************************)
\* What the parts say of types is the type invariant.
LEMMA TypesImplyTypeOK == QueueTypes /\ DaemonTypes /\ ClientTypes => TypeOK
BY DEF QueueTypes, DaemonTypes, ClientTypes, TypeOK, CallRecord

\* The steps of a client keep the types.
LEMMA ClientStepTypes ==
    ASSUME QueueTypes, DaemonTypes, ClientTypes, NEW c \in Clients,
           \/ Open(c) \/ ClientStep(c) \/ Send(c) \/ Close(c)
           \/ \E cmd \in Cmds, badpath \in BOOLEAN : Begin(c, cmd, badpath)
    PROVE  QueueTypes' /\ DaemonTypes' /\ ClientTypes'
<1> USE DEF queues, daemonVars, clientVars, GoTo
<1>n. 0 \in 0..MaxStarts /\ MaxStarts \in Nat
  BY LimitsAssumption
<1>1. CASE Open(c)
  <2>1. QueueTypes' /\ DaemonTypes'
    BY <1>1 DEF Open, QueueTypes, DaemonTypes
  <2>2. ClientTypes'
    <3>1. UNCHANGED <<call, ret, taken>>
      BY <1>1 DEF Open
    <3>2. CASE name # 0
      <4>1. /\ cpc' = [cpc EXCEPT ![c] = "idle"] /\ csendq' = [csendq EXCEPT ![c] = name]
            /\ name \in 0..MaxStarts
        BY <1>1, <3>2 DEF Open, QueueTypes
      <4> QED  BY <3>1, <3>2, <4>1 DEF ClientTypes
    <3>3. CASE name = 0
      <4>1. cpc' = [cpc EXCEPT ![c] = "gone"] /\ csendq' = csendq
        BY <1>1, <3>3 DEF Open
      <4> QED  BY <3>1, <4>1 DEF ClientTypes
    <3> QED  BY <3>2, <3>3
  <2> QED  BY <2>1, <2>2
<1>2. ASSUME NEW cmd \in Cmds, NEW badpath \in BOOLEAN, Begin(c, cmd, badpath)
      PROVE  QueueTypes' /\ DaemonTypes' /\ ClientTypes'
  <2>1. QueueTypes' /\ DaemonTypes'
    BY <1>2 DEF Begin, QueueTypes, DaemonTypes
  <2>2. call[c].n \in CallNos /\ call[c].n < MaxCalls[c]
    BY <1>2, Fields DEF ClientTypes, Begin
  <2>3. [n |-> call[c].n + 1, cmd |-> cmd, badpath |-> badpath] \in CallRecord
    BY <2>2, CallNumbers DEF CallRecord
  <2>4. ClientTypes'
    BY <1>2, <2>3 DEF Begin, ClientTypes
  <2> QED  BY <2>1, <2>4
<1>3. CASE ClearOne(c)
  <2>1. Tail(rsps[c]) \in Seq(Response) /\ Len(Tail(rsps[c])) <= Len(rsps[c])
    BY <1>3, Taken DEF ClearOne, QueueTypes
  <2>2. QueueTypes'
    BY <1>3, <2>1, LimitsAssumption DEF ClearOne, QueueTypes
  <2> QED  BY <1>3, <2>2 DEF ClearOne, DaemonTypes, ClientTypes
<1>4. CASE ClearDone(c)
  <2>1. ClientTypes'
    BY <1>4 DEF ClearDone, ClientTypes
  <2> QED  BY <1>4, <2>1 DEF ClearDone, QueueTypes, DaemonTypes
<1>5. CASE Send(c)
  <2>0. csendq[c] \in Objects
    BY <1>5, <1>n DEF Send, ClientTypes, Objects
  <2>1. Message(c) \in Request
    <3>1. call[c].n \in CallNos /\ call[c].cmd \in Cmds
      BY <1>5, Fields DEF Send, ClientTypes
    <3> QED  BY <3>1 DEF Message, Request
  <2>2. reqs[csendq[c]] \in Seq(Request) /\ Len(reqs[csendq[c]]) < RequestMax
    BY <1>5, <2>0 DEF Send, QueueTypes
  <2>3. /\ Append(reqs[csendq[c]], Message(c)) \in Seq(Request)
        /\ Len(Append(reqs[csendq[c]], Message(c))) <= RequestMax
    BY <2>1, <2>2, Appended, LimitsAssumption
  <2>4. reqs' = [reqs EXCEPT ![csendq[c]] = Append(reqs[csendq[c]], Message(c))]
    BY <1>5 DEF Send
  <2>5. QueueTypes'
    <3>1. UNCHANGED <<name, rsps, linked, late, performed, nstarts>>
      BY <1>5 DEF Send
    <3> QED  BY <2>0, <2>3, <2>4, <3>1 DEF QueueTypes
  <2>6. ClientTypes' /\ DaemonTypes'
    BY <1>5 DEF Send, ClientTypes, DaemonTypes
  <2> QED  BY <2>5, <2>6
<1>6. CASE Receive(c)
  <2>1. /\ Tail(rsps[c]) \in Seq(Response) /\ Len(Tail(rsps[c])) <= Len(rsps[c])
        /\ Head(rsps[c]) \in Response
    BY <1>6, Taken DEF Receive, QueueTypes
  <2>2. QueueTypes'
    BY <1>6, <2>1, LimitsAssumption DEF Receive, QueueTypes
  <2>3. ClientTypes'
    BY <1>6, <2>1 DEF Receive, ClientTypes
  <2> QED  BY <1>6, <2>2, <2>3 DEF Receive, DaemonTypes
<1>7. CASE TimeOut(c) \/ Close(c)
  <2>1. QueueTypes'
    BY <1>7 DEF TimeOut, Close, QueueTypes
  <2>2. ClientTypes'
    BY <1>7 DEF TimeOut, Close, ClientTypes
  <2>3. DaemonTypes'
    BY <1>7 DEF TimeOut, Close, DaemonTypes
  <2> QED  BY <2>1, <2>2, <2>3
<1> QED  BY <1>1, <1>2, <1>3, <1>4, <1>5, <1>6, <1>7 DEF ClientStep

\* The steps of the daemon keep the types.
LEMMA DaemonStepTypes ==
    ASSUME QueueTypes, DaemonTypes, ClientTypes,
           Start \/ Handle \/ Respond \/ Exit \/ Terminated \/ Killed
    PROVE  QueueTypes' /\ DaemonTypes' /\ ClientTypes'
<1> USE DEF queues, daemonVars, clientVars
<1>n. 0 \in 0..MaxStarts /\ MaxStarts \in Nat
  BY LimitsAssumption
<1>c. ClientTypes'
  BY DEF Start, Handle, Respond, Responded, Exit, Terminated, Killed, Down, ClientTypes
<1>1. CASE Start
  <2>1. name' \in 0..MaxStarts /\ name' # 0 /\ nstarts' \in 0..MaxStarts
    BY <1>1, <1>n DEF Start, QueueTypes
  <2> QED  BY <1>1, <1>c, <2>1 DEF Start, QueueTypes, DaemonTypes
<1>2. CASE Handle
  <2>0. recvq \in Objects
    BY <1>2, <1>n DEF Handle, DaemonTypes, Objects
  <2>1. /\ Tail(reqs[recvq]) \in Seq(Request) /\ Len(Tail(reqs[recvq])) <= Len(reqs[recvq])
        /\ Head(reqs[recvq]) \in Request
    BY <1>2, <2>0, Taken DEF Handle, QueueTypes
  <2>2. <<Head(reqs[recvq]).from, Head(reqs[recvq]).n>> \in Clients \X CallNos
    BY <2>1, Fields
  <2>3. reqs' \in [Objects -> Seq(Request)] /\ \A q \in Objects : Len(reqs'[q]) <= RequestMax
    BY <1>2, <2>0, <2>1, LimitsAssumption DEF Handle, QueueTypes
  <2>4. QueueTypes'
    <3>1. /\ UNCHANGED <<name, rsps, linked, late, nstarts>>
          /\ performed' \subseteq performed \cup {<<Head(reqs[recvq]).from, Head(reqs[recvq]).n>>}
      BY <1>2 DEF Handle
    <3> QED  BY <2>2, <2>3, <3>1 DEF QueueTypes
  <2>5. DaemonTypes'
    BY <1>2, <2>1 DEF Handle, DaemonTypes
  <2> QED  BY <1>c, <2>4, <2>5
<1>3. CASE Respond
  <2>1. req.from \in Clients /\ req.n \in CallNos
    BY <1>3, Fields DEF Respond, Responded, DaemonTypes
  <2>2. DaemonTypes'
    BY <1>3, <2>1 DEF Respond, Responded, DaemonTypes
  <2>3. QueueTypes'
    <3>1. UNCHANGED <<name, reqs, linked, late, performed, nstarts>>
      BY <1>3 DEF Respond, Responded
    <3>2. CASE rsps' = rsps
      BY <3>1, <3>2 DEF QueueTypes
    <3>3. ASSUME NEW q \in Clients, Len(rsps[q]) < ResponseMax,
                 rsps' = [rsps EXCEPT ![q] =
                    Append(@, [to |-> req.from, n |-> req.n, ack |-> result,
                               during |-> call[q].n])]
          PROVE  QueueTypes'
      <4>1. [to |-> req.from, n |-> req.n, ack |-> result, during |-> call[q].n] \in Response
        BY <2>1, Fields DEF Response, DaemonTypes, ClientTypes
      <4>2. /\ Append(rsps[q], [to |-> req.from, n |-> req.n, ack |-> result,
                                during |-> call[q].n]) \in Seq(Response)
            /\ Len(Append(rsps[q], [to |-> req.from, n |-> req.n, ack |-> result,
                                during |-> call[q].n])) <= ResponseMax
        BY <3>3, <4>1, Appended, LimitsAssumption DEF QueueTypes
      <4> QED  BY <3>1, <3>3, <4>2 DEF QueueTypes
    <3> QED  BY <1>3, <2>2, <3>2, <3>3 DEF Respond, Deliver, DaemonTypes
  <2> QED  BY <1>c, <2>2, <2>3
<1>4. CASE Exit \/ Terminated \/ Killed
  BY <1>4, <1>c, <1>n DEF Exit, Terminated, Killed, Down, QueueTypes, DaemonTypes
<1> QED  BY <1>1, <1>2, <1>3, <1>4

\* Every step keeps the types.
LEMMA NextTypes == IInv /\ [Next]_vars => QueueTypes' /\ DaemonTypes' /\ ClientTypes'
<1> SUFFICES ASSUME IInv, [Next]_vars PROVE QueueTypes' /\ DaemonTypes' /\ ClientTypes'
  OBVIOUS
<1>1. CASE UNCHANGED vars
  BY <1>1 DEF vars, queues, daemonVars, clientVars, IInv, QueueTypes, DaemonTypes, ClientTypes
<1> QED  BY <1>1, ClientStepTypes, DaemonStepTypes DEF Next, IInv

-----------------------------------------------------------------------------
(***************************************************************************)
(* Requests and answers.                                                   *)
(***************************************************************************)
\* What concerns client c alone.
SameClient(c) ==
    /\ cpc'[c] = cpc[c] /\ csendq'[c] = csendq[c] /\ call'[c] = call[c]
    /\ ret'[c] = ret[c] /\ taken'[c] = taken[c] /\ rsps'[c] = rsps[c]
    /\ c \in late' <=> c \in late

SameDaemon == UNCHANGED <<dpc, req, result, performed>>

\* A client does not disturb another one, although their requests share a queue.
LEMMA OtherClient ==
    ASSUME QueueTypes, ClientTypes, NEW c \in Clients, NEW d \in Clients, c # d,
           ChannelInv(c),
           \/ Open(d) \/ ClientStep(d) \/ Send(d) \/ Close(d)
           \/ \E cmd \in Cmds, badpath \in BOOLEAN : Begin(d, cmd, badpath)
    PROVE  ChannelInv(c)'
<1>1. SameClient(c)
  <2> USE DEF SameClient, queues, clientVars, GoTo, QueueTypes, ClientTypes
  <2>1. CASE Open(d) \/ Send(d) \/ Close(d)
    BY <2>1 DEF Open, Send, Close
  <2>2. ASSUME NEW cmd \in Cmds, NEW badpath \in BOOLEAN, Begin(d, cmd, badpath)
        PROVE  SameClient(c)
    BY <2>2 DEF Begin
  <2>3. CASE ClearOne(d) \/ ClearDone(d)
    BY <2>3 DEF ClearOne, ClearDone
  <2>4. CASE Receive(d) \/ TimeOut(d)
    BY <2>4 DEF Receive, TimeOut
  <2> QED  BY <2>1, <2>2, <2>3, <2>4 DEF ClientStep
<1>2. SameDaemon
  BY DEF Open, ClientStep, Send, Close, Begin, ClearOne, ClearDone, Receive, TimeOut,
         SameDaemon, daemonVars
<1>3. \A m : Due(c, m)' <=> Due(c, m)
  BY <1>1 DEF SameClient, Due
<1>4. HandledInv(c)' /\ RspInv(c)' /\ DoneInv(c)'
  <2>1. HandledInv(c) /\ RspInv(c) /\ DoneInv(c)
    BY DEF ChannelInv
  <2> QED  BY ONLY <1>1, <1>2, <1>3, <2>1 DEF SameClient, SameDaemon, HandledInv, RspInv, DoneInv
<1>5. ReqInv(c)'
  <2>r. ReqInv(c)
    BY DEF ChannelInv
  <2>1. CASE reqs' = reqs
    BY ONLY <1>1, <1>2, <1>3, <2>r, <2>1 DEF SameClient, SameDaemon, ReqInv
  <2>2. CASE Send(d)
    <3>0. csendq[d] \in Objects
      <4>1. cpc[d] = "send"
        BY <2>2 DEF Send
      <4>2. csendq[d] \in 0..MaxStarts /\ csendq[d] # 0
        BY <4>1 DEF ClientTypes
      <4> QED  BY ONLY <4>2, LimitsAssumption DEF Objects
    <3>1. Message(d) \in Request /\ Message(d).from = d
      <4>1. call[d].n \in CallNos /\ call[d].cmd \in Cmds
        BY <2>2, Fields DEF Send, ClientTypes
      <4> QED  BY ONLY <4>1, d \in Clients DEF Message, Request
    <3>2. ASSUME NEW q \in Objects, NEW k \in 1..Len(reqs'[q]), reqs'[q][k].from = c
          PROVE  /\ k \in 1..Len(reqs[q])
                 /\ \A l \in 1..k : reqs'[q][l] = reqs[q][l]
      <4>1. reqs[q] \in Seq(Request) /\ reqs[csendq[d]] \in Seq(Request)
        BY <3>0 DEF QueueTypes
      <4>2. reqs'[q] = IF q = csendq[d] THEN Append(reqs[q], Message(d)) ELSE reqs[q]
        BY <2>2, <3>0 DEF Send, QueueTypes
      <4>3. CASE q = csendq[d]
        <5>1. /\ Len(reqs'[q]) = Len(reqs[q]) + 1 /\ Len(reqs[q]) \in Nat
              /\ \A l \in 1..Len(reqs[q]) : reqs'[q][l] = reqs[q][l]
              /\ reqs'[q][Len(reqs[q]) + 1].from = d
          BY <3>1, <4>1, <4>2, <4>3, Appended
        <5> QED  BY ONLY <3>2, <5>1, c # d
      <4>4. CASE q # csendq[d]
        BY <3>2, <4>1, <4>2, <4>4
      <4> QED  BY <4>3, <4>4
    <3>3. ASSUME NEW q \in Objects, NEW k \in 1..Len(reqs'[q]), reqs'[q][k].from = c
          PROVE  /\ q = csendq[c] /\ Due(c, reqs'[q][k].n)
                 /\ <<c, reqs'[q][k].n>> \notin performed
                 /\ \A l \in 1..k - 1 : reqs'[q][l].from = c => reqs'[q][l].n < reqs'[q][k].n
                 /\ dpc = "respond" /\ req.from = c => req.n < reqs'[q][k].n
                 /\ \A l \in 1..Len(rsps[c]) : rsps[c][l].n < reqs'[q][k].n
      <4>1. k \in 1..Len(reqs[q]) /\ \A l \in 1..k : reqs'[q][l] = reqs[q][l]
        BY <3>2, <3>3
      <4>2. k \in Nat /\ k \in 1..k /\ \A l \in 1..k - 1 : l \in 1..k
        BY ONLY <4>1
      <4>3. reqs[q][k].from = c
        BY <3>3, <4>1, <4>2
      <4> QED  BY ONLY <2>r, <4>1, <4>2, <4>3 DEF ReqInv
    <3> QED  BY ONLY <1>1, <1>2, <1>3, <3>3 DEF SameClient, SameDaemon, ReqInv
  <2> QED  BY <2>1, <2>2 DEF Open, ClientStep, Close, Begin, ClearOne, ClearDone, Receive,
              TimeOut, queues
<1> QED  BY <1>4, <1>5 DEF ChannelInv

\* A step of client c that sends nothing and takes nothing from its queue.
LEMMA OwnStep ==
    ASSUME QueueTypes, DaemonTypes, NEW c \in Clients, ReqInv(c), HandledInv(c), RspInv(c),
           SameDaemon, reqs' = reqs, csendq'[c] = csendq[c] \/ csendq[c] \notin Objects,
           rsps'[c] = rsps[c], \A m \in CallNos : Due(c, m) => Due(c, m)',
           cpc'[c] \in {"send", "receive"} =>
              \/ rsps'[c] = <<>>
              \/ cpc[c] \in {"send", "receive"} /\ call'[c] = call[c]
    PROVE  ReqInv(c)' /\ HandledInv(c)' /\ RspInv(c)'
<1>1. /\ \A q \in Objects : \A k \in 1..Len(reqs[q]) : reqs[q][k].n \in CallNos
      /\ \A k \in 1..Len(rsps[c]) : rsps[c][k].n \in CallNos
      /\ dpc = "respond" => req.n \in CallNos
  BY Fields DEF QueueTypes, DaemonTypes
<1>2. ReqInv(c)'
  BY <1>1 DEF ReqInv, SameDaemon
<1>3. HandledInv(c)'
  BY <1>1 DEF HandledInv, SameDaemon
<1>4. RspInv(c)'
  BY <1>1 DEF RspInv, SameDaemon
<1> QED  BY <1>2, <1>3, <1>4

\* ... and one that takes the oldest response: what is due later stays in order.
LEMMA TakingStep ==
    ASSUME QueueTypes, DaemonTypes, NEW c \in Clients, ReqInv(c), HandledInv(c), RspInv(c),
           SameDaemon, reqs' = reqs, csendq'[c] = csendq[c],
           rsps[c] # <<>>, rsps'[c] = Tail(rsps[c]),
           \A m \in CallNos : Due(c, m) /\ rsps[c][1].n < m => Due(c, m)',
           cpc'[c] \notin {"send", "receive"}
    PROVE  ReqInv(c)' /\ HandledInv(c)' /\ RspInv(c)'
<1>1. /\ \A q \in Objects : \A k \in 1..Len(reqs[q]) : reqs[q][k].n \in CallNos
      /\ \A k \in 1..Len(rsps[c]) : rsps[c][k].n \in CallNos
      /\ dpc = "respond" => req.n \in CallNos
  BY Fields DEF QueueTypes, DaemonTypes
<1>2. /\ Len(rsps[c]) \in Nat /\ Len(rsps[c]) >= 1 /\ Len(rsps'[c]) = Len(rsps[c]) - 1
      /\ \A k \in 1..Len(rsps[c]) - 1 : rsps'[c][k] = rsps[c][k + 1]
  <2>1. rsps[c] \in Seq(Response)
    BY DEF QueueTypes
  <2> QED  BY <2>1, Taken
<1>3. /\ 1 \in 1..Len(rsps[c])
      /\ \A k \in 1..Len(rsps'[c]) :
            /\ k + 1 \in 1..Len(rsps[c]) /\ rsps'[c][k] = rsps[c][k + 1]
            /\ 1 \in 1..(k + 1) - 1
            /\ \A l \in 1..k - 1 : l + 1 \in 1..(k + 1) - 1 /\ l \in 1..Len(rsps'[c])
  BY ONLY <1>2
<1>4. ReqInv(c)'
  <2>1. ASSUME NEW q \in Objects, NEW k \in 1..Len(reqs[q]), reqs[q][k].from = c
        PROVE  /\ q = csendq[c] /\ Due(c, reqs[q][k].n)'
               /\ <<c, reqs[q][k].n>> \notin performed
               /\ \A l \in 1..k - 1 : reqs[q][l].from = c => reqs[q][l].n < reqs[q][k].n
               /\ dpc = "respond" /\ req.from = c => req.n < reqs[q][k].n
               /\ \A l \in 1..Len(rsps'[c]) : rsps'[c][l].n < reqs[q][k].n
    BY <1>1, <1>3, <2>1 DEF ReqInv
  <2> QED  BY <2>1 DEF ReqInv, SameDaemon
<1>5. HandledInv(c)'
  BY <1>1, <1>3 DEF HandledInv, SameDaemon
<1>6. RspInv(c)'
  <2>1. ASSUME NEW k \in 1..Len(rsps'[c])
        PROVE  /\ rsps'[c][k].to = c
               /\ Due(c, rsps[c][k].n)'
               /\ rsps'[c][k].ack <=> <<c, rsps'[c][k].n>> \in performed
               /\ \A l \in 1..k - 1 : rsps'[c][l].n < rsps'[c][k].n
    <3> DEFINE j == k + 1
    <3>1. /\ j \in 1..Len(rsps[c]) /\ rsps'[c][k] = rsps[c][j] /\ 1 \in 1..j - 1
          /\ \A l \in 1..k - 1 : l + 1 \in 1..j - 1 /\ rsps'[c][l] = rsps[c][l + 1]
      BY ONLY <1>3
    <3> HIDE DEF j
    <3>2. /\ rsps[c][j].to = c
          /\ Due(c, rsps[c][j].n)
          /\ rsps[c][j].ack <=> <<c, rsps[c][j].n>> \in performed
          /\ \A l \in 1..j - 1 : rsps[c][l].n < rsps[c][j].n
      BY <3>1 DEF RspInv
    <3>3. PICK m \in CallNos : m = rsps[c][j].n
      BY <1>1, <3>1
    <3>4. Due(c, m)'
      BY <3>1, <3>2, <3>3
    <3>5. Due(c, rsps[c][k].n)'
      BY ONLY <3>1, <3>3, <3>4 DEF Due
    <3> QED  BY ONLY <3>1, <3>2, <3>5
  <2> QED  BY <2>1 DEF RspInv, SameDaemon
<1> QED  BY <1>4, <1>5, <1>6

\* The steps of a client keep its own requests and answers matched.
LEMMA OwnClient ==
    ASSUME IInv, NEW c \in Clients,
           \/ Open(c) \/ ClientStep(c) \/ Send(c) \/ Close(c)
           \/ \E cmd \in Cmds, badpath \in BOOLEAN : Begin(c, cmd, badpath)
    PROVE  ChannelInv(c)'
<1>t. QueueTypes /\ DaemonTypes /\ ClientTypes
  BY DEF IInv
<1>i. ReqInv(c) /\ HandledInv(c) /\ RspInv(c) /\ DoneInv(c)
  BY DEF IInv, ChannelInv
<1>m. \A m \in CallNos : m \in Nat
  BY CallNumbers
<1>n. call[c].n \in CallNos /\ call[c].n \in Nat
  BY <1>m, <1>t, Fields DEF ClientTypes
<1>r. call[c].n <= call[c].n /\ ~(call[c].n < call[c].n)
  BY ONLY <1>n
<1>d. /\ DOMAIN cpc = Clients /\ DOMAIN csendq = Clients /\ DOMAIN call = Clients
      /\ DOMAIN ret = Clients /\ DOMAIN taken = Clients /\ DOMAIN rsps = Clients
  BY <1>t DEF ClientTypes, QueueTypes
<1>s. SameDaemon
  BY DEF Open, ClientStep, Send, Close, Begin, ClearOne, ClearDone, Receive, TimeOut,
         SameDaemon, daemonVars
<1>1. CASE Open(c)
  <2>1. /\ cpc[c] = "new" /\ cpc'[c] \in {"idle", "gone"}
        /\ UNCHANGED <<reqs, rsps, call, ret, taken, late, performed>>
    BY <1>1, <1>d DEF Open, GoTo
  <2>2. csendq[c] \notin Objects
    BY <1>t, <2>1 DEF ClientTypes, Objects
  <2>3. \A m \in CallNos : Due(c, m) => Due(c, m)'
    BY ONLY <2>1 DEF Due
  <2>4. ReqInv(c)' /\ HandledInv(c)' /\ RspInv(c)'
    BY <1>i, <1>s, <1>t, <2>1, <2>2, <2>3, OwnStep
  <2>5. DoneInv(c)'
    BY ONLY <1>i, <2>1 DEF DoneInv
  <2> QED  BY <2>4, <2>5 DEF ChannelInv
<1>2. ASSUME NEW cmd \in Cmds, NEW badpath \in BOOLEAN, Begin(c, cmd, badpath)
      PROVE  ChannelInv(c)'
  <2>1. /\ cpc[c] = "idle" /\ cpc'[c] = "clear" /\ call'[c].n = call[c].n + 1
        /\ taken'[c] = NoResponse /\ UNCHANGED <<reqs, rsps, csendq, late, performed>>
    BY <1>2, <1>d DEF Begin, GoTo, queues
  <2>a. \A m \in CallNos : m <= call[c].n => m < call'[c].n /\ m <= call'[c].n
    <3>1. ASSUME NEW m \in CallNos, m <= call[c].n PROVE m < call'[c].n /\ m <= call'[c].n
      <4>1. m \in Nat /\ call[c].n \in Nat /\ m <= call[c].n /\ call'[c].n = call[c].n + 1
        BY <1>m, <1>n, <2>1, <3>1
      <4> QED  BY ONLY <4>1
    <3> QED  BY <3>1
  <2>2. \A m \in CallNos : Due(c, m) => Due(c, m)'
    BY ONLY <2>a, <2>1 DEF Due
  <2>3. ReqInv(c)' /\ HandledInv(c)' /\ RspInv(c)'
    BY <1>i, <1>s, <1>t, <2>1, <2>2, OwnStep
  <2>4. DoneInv(c)'
    BY ONLY <1>i, <2>a, <2>1 DEF DoneInv
  <2> QED  BY <2>3, <2>4 DEF ChannelInv
<1>3. CASE ClearOne(c)
  <2>1. /\ cpc[c] = "clear" /\ rsps[c] # <<>> /\ rsps'[c] = Tail(rsps[c])
        /\ UNCHANGED <<reqs, cpc, csendq, call, ret, taken, late, performed>>
    BY <1>3, <1>d DEF ClearOne, clientVars
  <2>2. \A m \in CallNos : Due(c, m) => Due(c, m)'
    BY ONLY <2>1 DEF Due
  <2>3. ReqInv(c)' /\ HandledInv(c)' /\ RspInv(c)'
    BY <1>i, <1>s, <1>t, <2>1, <2>2, TakingStep
  <2>4. DoneInv(c)'
    BY ONLY <1>i, <2>1 DEF DoneInv
  <2> QED  BY <2>3, <2>4 DEF ChannelInv
<1>4. CASE ClearDone(c)
  <2>1. /\ cpc[c] = "clear" /\ rsps[c] = <<>> /\ cpc'[c] \in {"idle", "send"}
        /\ UNCHANGED <<reqs, rsps, csendq, call, taken, late, performed>>
    BY <1>4, <1>d DEF ClearDone, GoTo, queues
  <2>2. \A m \in CallNos : Due(c, m) => Due(c, m)'
    BY ONLY <1>n, <2>1 DEF Due
  <2>3. ReqInv(c)' /\ HandledInv(c)' /\ RspInv(c)'
    BY <1>i, <1>s, <1>t, <2>1, <2>2, OwnStep
  <2>4. DoneInv(c)'
    BY ONLY <1>i, <2>1 DEF DoneInv
  <2> QED  BY <2>3, <2>4 DEF ChannelInv
<1>5. CASE Send(c)
  <2>1. /\ cpc[c] = "send" /\ cpc'[c] = "receive"
        /\ UNCHANGED <<rsps, csendq, call, taken, late, performed>>
    BY <1>5, <1>d DEF Send, GoTo
  <2> DEFINE o == csendq[c]
  <2>2. o \in Objects
    <3>1. o \in 0..MaxStarts /\ o # 0
      BY <1>t, <2>1 DEF ClientTypes
    <3> QED  BY ONLY <3>1, LimitsAssumption DEF Objects
  <2>3. Message(c) \in Request /\ Message(c).from = c /\ Message(c).n = call[c].n
    <3>1. call[c].n \in CallNos /\ call[c].cmd \in Cmds
      BY <1>n, <1>t, <2>1 DEF ClientTypes
    <3> QED  BY ONLY <3>1, c \in Clients DEF Message, Request
  <2>4. /\ Len(reqs'[o]) = Len(reqs[o]) + 1 /\ Len(reqs[o]) \in Nat
        /\ \A k \in 1..Len(reqs[o]) : reqs'[o][k] = reqs[o][k]
        /\ reqs'[o][Len(reqs[o]) + 1] = Message(c)
        /\ \A q \in Objects \ {o} : reqs'[q] = reqs[q]
    <3>1. DOMAIN reqs = Objects /\ reqs[o] \in Seq(Request)
      BY <1>t, <2>2 DEF QueueTypes
    <3>2. /\ reqs'[o] = Append(reqs[o], Message(c))
          /\ \A q \in Objects \ {o} : reqs'[q] = reqs[q]
      BY <1>5, <2>2, <3>1 DEF Send
    <3> QED  BY ONLY <2>3, <3>1, <3>2, Appended
  <2> HIDE DEF o
  <2>5. /\ \A q \in Objects : \A k \in 1..Len(reqs[q]) : reqs[q][k].n \in CallNos
        /\ \A k \in 1..Len(rsps[c]) : rsps[c][k].n \in CallNos
        /\ dpc = "respond" => req.n \in CallNos
    BY <1>t, Fields DEF QueueTypes, DaemonTypes
  <2>l. \A m \in CallNos : Due(c, m) => c \in late /\ m < call[c].n
    BY ONLY <2>1 DEF Due
  <2>6. \A m \in CallNos : Due(c, m) => Due(c, m)'
    BY ONLY <2>1, <2>l DEF Due
  <2>7. Due(c, call[c].n)' /\ <<c, call[c].n>> \notin performed
    <3>1. Due(c, call[c].n)'
      BY ONLY <1>r, <2>1 DEF Due
    <3>2. <<c, call[c].n>> \notin performed
      BY ONLY <1>i, <1>n, <1>r, <2>1 DEF DoneInv
    <3> QED  BY <3>1, <3>2
  <2>8. HandledInv(c)'
    BY ONLY <1>i, <1>s, <2>1, <2>5, <2>6 DEF HandledInv, SameDaemon
  <2>9. RspInv(c)'
    BY ONLY <1>i, <1>s, <2>1, <2>5, <2>6 DEF RspInv, SameDaemon
  <2>10. ReqInv(c)'
    <3>1. ASSUME NEW q \in Objects, NEW k \in 1..Len(reqs'[q]), reqs'[q][k].from = c
          PROVE  /\ q = csendq[c] /\ Due(c, reqs[q][k].n)'
                 /\ <<c, reqs'[q][k].n>> \notin performed
                 /\ \A l \in 1..k - 1 : reqs'[q][l].from = c => reqs'[q][l].n < reqs'[q][k].n
                 /\ dpc = "respond" /\ req.from = c => req.n < reqs'[q][k].n
                 /\ \A l \in 1..Len(rsps[c]) : rsps[c][l].n < reqs'[q][k].n
      <4>1. CASE q = o /\ k = Len(reqs[o]) + 1
        <5>1. reqs'[q][k].n = call[c].n
          BY ONLY <2>3, <2>4, <4>1
        <5>2. Due(c, reqs[q][k].n)'
          BY ONLY <2>1, <2>7, <5>1 DEF Due
        <5>3. \A l \in 1..k - 1 : reqs'[q][l].from = c => reqs'[q][l].n < call[c].n
          <6>1. \A l \in 1..k - 1 : l \in 1..Len(reqs[q]) /\ reqs'[q][l] = reqs[q][l]
            BY ONLY <2>4, <4>1
          <6>2. \A l \in 1..Len(reqs[q]) : reqs[q][l].from = c => Due(c, reqs[q][l].n)
            BY ONLY <1>i, q \in Objects DEF ReqInv
          <6>3. \A l \in 1..Len(reqs[q]) : reqs[q][l].n \in CallNos
            BY ONLY <2>5, q \in Objects
          <6> QED  BY ONLY <2>l, <6>1, <6>2, <6>3
        <5>4. dpc = "respond" /\ req.from = c => req.n < call[c].n
          BY ONLY <1>i, <2>5, <2>l DEF HandledInv
        <5>5. \A l \in 1..Len(rsps[c]) : rsps[c][l].n < call[c].n
          BY ONLY <1>i, <2>5, <2>l DEF RspInv
        <5>6. q = csendq[c]
          BY <4>1 DEF o
        <5>7. <<c, reqs'[q][k].n>> \notin performed
          BY ONLY <2>7, <5>1
        <5> QED  BY ONLY <5>1, <5>2, <5>3, <5>4, <5>5, <5>6, <5>7
      <4>2. CASE ~(q = o /\ k = Len(reqs[o]) + 1)
        <5>1. k \in 1..Len(reqs[q])
          BY ONLY <2>4, <4>2, q \in Objects, k \in 1..Len(reqs'[q])
        <5>2. \A l \in 1..k : reqs'[q][l] = reqs[q][l]
          BY ONLY <2>2, <2>4, <5>1, q \in Objects
        <5>3. k \in 1..k /\ \A l \in 1..k - 1 : l \in 1..k
          BY ONLY <5>1
        <5>4. reqs[q][k].from = c /\ reqs'[q][k] = reqs[q][k]
          BY ONLY <3>1, <5>2, <5>3
        <5>5. /\ q = csendq[c] /\ Due(c, reqs[q][k].n)
              /\ <<c, reqs[q][k].n>> \notin performed
              /\ \A l \in 1..k - 1 : reqs[q][l].from = c => reqs[q][l].n < reqs[q][k].n
              /\ dpc = "respond" /\ req.from = c => req.n < reqs[q][k].n
              /\ \A l \in 1..Len(rsps[c]) : rsps[c][l].n < reqs[q][k].n
          BY ONLY <1>i, <5>1, <5>4, q \in Objects DEF ReqInv
        <5>6. PICK m \in CallNos : m = reqs[q][k].n
          BY ONLY <2>5, <5>1, q \in Objects
        <5>7. Due(c, m)'
          BY ONLY <2>6, <5>5, <5>6
        <5>8. Due(c, reqs[q][k].n)'
          BY ONLY <5>4, <5>6, <5>7 DEF Due
        <5> QED  BY ONLY <5>2, <5>3, <5>4, <5>5, <5>8
      <4> QED  BY <4>1, <4>2
    <3> QED  BY ONLY <1>s, <2>1, <3>1 DEF ReqInv, SameDaemon
  <2>11. DoneInv(c)'
    BY ONLY <1>i, <2>1 DEF DoneInv
  <2> QED  BY <2>8, <2>9, <2>10, <2>11 DEF ChannelInv
<1>6. CASE Receive(c)
  <2>1. /\ cpc[c] = "receive" /\ cpc'[c] = "idle" /\ rsps[c] # <<>>
        /\ rsps'[c] = Tail(rsps[c]) /\ taken'[c] = Head(rsps[c])
        /\ ret'[c] = (IF Head(rsps[c]).ack THEN "ok" ELSE "error")
        /\ UNCHANGED <<reqs, csendq, call, late, performed>>
    BY <1>6, <1>d DEF Receive, GoTo
  <2>2. Head(rsps[c]) = rsps[c][1] /\ 1 \in 1..Len(rsps[c]) /\ rsps[c][1] \in Response
    <3>1. rsps[c] \in Seq(Response)
      BY <1>t DEF QueueTypes
    <3> QED  BY ONLY <2>1, <3>1, Taken
  <2>3. /\ Due(c, rsps[c][1].n) /\ rsps[c][1].during = call[c].n
        /\ rsps[c][1].ack <=> <<c, rsps[c][1].n>> \in performed
    BY ONLY <1>i, <2>1, <2>2 DEF RspInv
  <2>n. rsps[c][1].n \in CallNos
    BY ONLY <2>2, Fields
  <2>4. c \notin late => rsps[c][1].n = call[c].n
    BY ONLY <2>1, <2>3 DEF Due
  <2>5. \A m \in CallNos : Due(c, m) /\ rsps[c][1].n < m => Due(c, m)'
    <3>1. ASSUME NEW m \in CallNos, Due(c, m), rsps[c][1].n < m PROVE Due(c, m)'
      <4>1. c \in late
        <5>1. ASSUME c \notin late PROVE m = call[c].n
          BY ONLY <2>1, <3>1, <5>1 DEF Due
        <5> QED  BY ONLY <1>n, <2>4, <2>n, <3>1, <5>1
      <4> QED  BY ONLY <2>1, <3>1, <4>1 DEF Due
    <3> QED  BY <3>1
  <2>6. ReqInv(c)' /\ HandledInv(c)' /\ RspInv(c)'
    BY <1>i, <1>s, <1>t, <2>1, <2>5, TakingStep
  <2>7. DoneInv(c)'
    <3>1. ret'[c] = "ok" <=> rsps[c][1].ack
      BY ONLY <2>1, <2>2
    <3> QED  BY ONLY <1>i, <2>1, <2>2, <2>3, <2>4, <3>1 DEF DoneInv
  <2> QED  BY <2>6, <2>7 DEF ChannelInv
<1>7. CASE TimeOut(c)
  <2>1. /\ cpc[c] = "receive" /\ cpc'[c] = "idle" /\ c \in late'
        /\ UNCHANGED <<reqs, rsps, csendq, call, taken, performed>>
    BY <1>7, <1>d DEF TimeOut, GoTo, queues
  <2>2. \A m \in CallNos : Due(c, m) => Due(c, m)'
    BY ONLY <2>1 DEF Due
  <2>3. ReqInv(c)' /\ HandledInv(c)' /\ RspInv(c)'
    BY <1>i, <1>s, <1>t, <2>1, <2>2, OwnStep
  <2>4. DoneInv(c)'
    BY ONLY <1>i, <2>1 DEF DoneInv
  <2> QED  BY <2>3, <2>4 DEF ChannelInv
<1>8. CASE Close(c)
  <2>1. /\ cpc'[c] = "gone" /\ UNCHANGED <<reqs, rsps, csendq, call, taken, late, performed>>
    BY <1>8, <1>d DEF Close, GoTo
  <2>2. \A m \in CallNos : Due(c, m) => Due(c, m)'
    BY ONLY <2>1 DEF Due
  <2>3. ReqInv(c)' /\ HandledInv(c)' /\ RspInv(c)'
    BY <1>i, <1>s, <1>t, <2>1, <2>2, OwnStep
  <2>4. DoneInv(c)'
    BY ONLY <1>i, <2>1 DEF DoneInv
  <2> QED  BY <2>3, <2>4 DEF ChannelInv
<1> QED  BY <1>1, <1>2, <1>3, <1>4, <1>5, <1>6, <1>7, <1>8 DEF ClientStep

\* The daemon takes the oldest request and carries it out, or not: it is the
\* oldest one of its client, and no later one is affected.
LEMMA HandleStep ==
    ASSUME IInv, NEW c \in Clients, Handle PROVE ChannelInv(c)'
<1>t. QueueTypes /\ DaemonTypes /\ ClientTypes
  BY DEF IInv
<1>i. ReqInv(c) /\ HandledInv(c) /\ RspInv(c) /\ DoneInv(c)
  BY DEF IInv, ChannelInv
<1>1. /\ dpc = "wait" /\ dpc' = "respond" /\ reqs[recvq] # <<>> /\ req' = Head(reqs[recvq])
      /\ reqs' = [reqs EXCEPT ![recvq] = Tail(@)]
      /\ UNCHANGED <<rsps, cpc, csendq, call, ret, taken, late>>
  BY DEF Handle, clientVars
<1>p. result' \in BOOLEAN /\ performed' = IF result' THEN performed \cup {<<req'.from, req'.n>>}
                                                     ELSE performed
  BY DEF Handle
<1>2. recvq \in Objects
  <2>1. recvq \in 0..MaxStarts /\ recvq # 0
    BY <1>t, <1>1 DEF DaemonTypes
  <2> QED  BY ONLY <2>1, LimitsAssumption DEF Objects
<1>3. /\ Len(reqs[recvq]) \in Nat /\ Len(reqs[recvq]) >= 1
      /\ Len(reqs'[recvq]) = Len(reqs[recvq]) - 1
      /\ \A k \in 1..Len(reqs[recvq]) - 1 : reqs'[recvq][k] = reqs[recvq][k + 1]
      /\ req' = reqs[recvq][1] /\ req' \in Request
      /\ \A q \in Objects \ {recvq} : reqs'[q] = reqs[q]
  <2>1. DOMAIN reqs = Objects /\ reqs[recvq] \in Seq(Request)
    BY <1>t, <1>2 DEF QueueTypes
  <2>2. reqs'[recvq] = Tail(reqs[recvq]) /\ \A q \in Objects \ {recvq} : reqs'[q] = reqs[q]
    BY ONLY <1>1, <1>2, <2>1
  <2>3. Len(reqs[recvq]) \in Nat
    BY ONLY <2>1
  <2>4. reqs[recvq] # <<>> /\ req' = Head(reqs[recvq])
    BY ONLY <1>1
  <2>5. /\ Len(Tail(reqs[recvq])) = Len(reqs[recvq]) - 1 /\ Len(reqs[recvq]) >= 1
        /\ \A k \in 1..Len(reqs[recvq]) - 1 : Tail(reqs[recvq])[k] = reqs[recvq][k + 1]
        /\ Head(reqs[recvq]) \in Request /\ Head(reqs[recvq]) = reqs[recvq][1]
    BY ONLY <2>1, <2>4, Taken
  <2> QED  BY ONLY <2>2, <2>3, <2>4, <2>5
<1>4. 1 \in 1..Len(reqs[recvq])
  BY ONLY <1>3
<1>5. /\ \A q \in Objects : \A k \in 1..Len(reqs[q]) : reqs[q][k].n \in Nat
      /\ \A k \in 1..Len(rsps[c]) : rsps[c][k].n \in Nat
      /\ req'.n \in Nat /\ req'.n \in CallNos
  <2>1. \A m \in CallNos : m \in Nat
    BY CallNumbers
  <2>2. req'.n \in CallNos
    BY ONLY <1>3, Fields
  <2> QED  BY <1>t, <2>1, <2>2, Fields DEF QueueTypes
<1>6. \A m : Due(c, m)' <=> Due(c, m)
  BY ONLY <1>1 DEF Due
<1>7. ASSUME req'.from = c
      PROVE  /\ recvq = csendq[c] /\ Due(c, req'.n) /\ <<c, req'.n>> \notin performed
             /\ \A l \in 1..Len(rsps[c]) : rsps[c][l].n < req'.n
  BY ONLY <1>i, <1>2, <1>3, <1>4, <1>7 DEF ReqInv
<1>8. \A m : <<c, m>> \in performed' <=>
               <<c, m>> \in performed \/ (result' /\ req'.from = c /\ m = req'.n)
  BY ONLY <1>p
<1>9. HandledInv(c)'
  <2>1. ASSUME req'.from = c
        PROVE  /\ Due(c, req.n)' /\ (result' <=> <<c, req'.n>> \in performed')
               /\ \A l \in 1..Len(rsps[c]) : rsps[c][l].n < req'.n
    <3>1. Due(c, req.n)'
      BY ONLY <1>1, <1>7, <2>1 DEF Due
    <3>2. result' <=> <<c, req'.n>> \in performed'
      BY ONLY <1>p, <1>7, <1>8, <2>1
    <3> QED  BY ONLY <1>7, <2>1, <3>1, <3>2
  <2> QED  BY ONLY <1>1, <2>1 DEF HandledInv
<1>10. RspInv(c)'
  <2>1. ASSUME NEW k \in 1..Len(rsps[c])
        PROVE  <<c, rsps[c][k].n>> \in performed' <=> <<c, rsps[c][k].n>> \in performed
    <3>1. req'.from = c => rsps[c][k].n # req'.n
      <4>1. rsps[c][k].n \in Nat /\ req'.n \in Nat
        BY ONLY <1>5, <2>1
      <4>2. req'.from = c => rsps[c][k].n < req'.n
        BY ONLY <1>7, <2>1
      <4> QED  BY ONLY <4>1, <4>2
    <3> QED  BY ONLY <1>8, <3>1
  <2>2. ASSUME NEW k \in 1..Len(rsps[c])
        PROVE  Due(c, rsps[c][k].n)'
    <3>1. PICK m : m = rsps[c][k].n
      OBVIOUS
    <3>2. Due(c, m)'
      BY ONLY <1>i, <1>6, <3>1, k \in 1..Len(rsps[c]) DEF RspInv
    <3> QED  BY ONLY <1>1, <3>1, <3>2 DEF Due
  <2> QED  BY ONLY <1>i, <1>1, <2>1, <2>2 DEF RspInv
<1>11. DoneInv(c)'
  <2>1. ASSUME NEW m \in CallNos, <<c, m>> \in performed'
        PROVE  m <= call[c].n /\ (cpc[c] \in {"clear", "send"} => m < call[c].n)
    <3>1. CASE <<c, m>> \in performed
      BY ONLY <1>i, <2>1, <3>1 DEF DoneInv
    <3>2. CASE req'.from = c /\ m = req'.n
      BY ONLY <1>7, <3>2 DEF Due
    <3> QED  BY <1>8, <2>1, <3>1, <3>2
  <2>2. c \notin late /\ cpc[c] = "idle" =>
           (<<c, call[c].n>> \in performed' <=> <<c, call[c].n>> \in performed)
    BY ONLY <1>7, <1>8 DEF Due
  <2> QED  BY ONLY <1>i, <1>1, <2>1, <2>2 DEF DoneInv
<1>12. ReqInv(c)'
  <2>1. ASSUME NEW q \in Objects, NEW k \in 1..Len(reqs'[q]), reqs'[q][k].from = c
        PROVE  /\ q = csendq[c] /\ Due(c, reqs[q][k].n)'
               /\ <<c, reqs'[q][k].n>> \notin performed'
               /\ \A l \in 1..k - 1 : reqs'[q][l].from = c => reqs'[q][l].n < reqs'[q][k].n
               /\ req'.from = c => req'.n < reqs'[q][k].n
               /\ \A l \in 1..Len(rsps[c]) : rsps[c][l].n < reqs'[q][k].n
    <3> DEFINE s == IF q = recvq THEN 1 ELSE 0
               j == k + s
    <3>1. /\ j \in 1..Len(reqs[q]) /\ reqs'[q][k] = reqs[q][j]
          /\ \A l \in 1..k - 1 : l + s \in 1..j - 1 /\ reqs'[q][l] = reqs[q][l + s]
          /\ q = recvq => 1 \in 1..j - 1
      <4>1. CASE q = recvq
        <5>1. /\ s = 1 /\ j = k + 1 /\ k \in 1..Len(reqs[recvq]) - 1
              /\ Len(reqs[recvq]) \in Nat
          BY ONLY <1>3, <2>1, <4>1
        <5> HIDE DEF j, s
        <5>2. /\ j \in 1..Len(reqs[recvq]) /\ 1 \in 1..j - 1
              /\ \A l \in 1..k - 1 : /\ l + s \in 1..j - 1 /\ l + s = l + 1
                                     /\ l \in 1..Len(reqs[recvq]) - 1
          BY ONLY <5>1
        <5> QED  BY ONLY <1>3, <4>1, <5>1, <5>2
      <4>2. CASE q # recvq
        <5>1. reqs'[q] = reqs[q]
          BY ONLY <1>3, <4>2, q \in Objects
        <5> QED  BY ONLY <2>1, <4>2, <5>1
      <4> QED  BY <4>1, <4>2
    <3> HIDE DEF j, s
    <3>2. /\ q = csendq[c] /\ Due(c, reqs[q][j].n) /\ <<c, reqs[q][j].n>> \notin performed
          /\ \A l \in 1..j - 1 : reqs[q][l].from = c => reqs[q][l].n < reqs[q][j].n
          /\ \A l \in 1..Len(rsps[c]) : rsps[c][l].n < reqs[q][j].n
      BY ONLY <1>i, <2>1, <3>1 DEF ReqInv
    <3>3. req'.from = c => req'.n < reqs[q][j].n
      BY ONLY <1>3, <1>7, <3>1, <3>2
    <3>4. <<c, reqs[q][j].n>> \notin performed'
      <4>1. req'.from = c => req'.n # reqs[q][j].n
        <5>1. req'.n \in Nat /\ reqs[q][j].n \in Nat
          BY ONLY <1>5, <3>1, q \in Objects
        <5> QED  BY ONLY <3>3, <5>1
      <4> QED  BY ONLY <1>8, <3>2, <4>1
    <3>5. PICK m : m = reqs[q][j].n
      OBVIOUS
    <3>6. Due(c, m)'
      BY ONLY <1>6, <3>2, <3>5
    <3>7. Due(c, reqs[q][k].n)'
      BY ONLY <3>1, <3>5, <3>6 DEF Due
    <3>8. \A l \in 1..k - 1 : reqs'[q][l].from = c => reqs'[q][l].n < reqs'[q][k].n
      BY ONLY <3>1, <3>2
    <3> QED  BY ONLY <3>1, <3>2, <3>3, <3>4, <3>7, <3>8
  <2> QED  BY ONLY <1>1, <2>1 DEF ReqInv
<1> QED  BY <1>9, <1>10, <1>11, <1>12 DEF ChannelInv

\* The response goes to the client whose request it answers, after the ones
\* that are in its queue, or nowhere.
LEMMA RespondStep ==
    ASSUME IInv, NEW c \in Clients, Respond PROVE ChannelInv(c)'
<1>t. QueueTypes /\ DaemonTypes /\ ClientTypes
  BY DEF IInv
<1>i. ReqInv(c) /\ HandledInv(c) /\ RspInv(c) /\ DoneInv(c)
  BY DEF IInv, ChannelInv
<1>1. /\ dpc = "respond" /\ dpc' = "wait"
      /\ UNCHANGED <<reqs, performed, cpc, csendq, call, ret, taken, late>>
  BY DEF Respond, Responded, clientVars
<1>2. sendq' \in {NoClient, req.from}
  <2>1. CASE sendq = NoClient \/ client_uuid # req.from
    BY <2>1 DEF Respond
  <2>2. CASE sendq # NoClient /\ client_uuid = req.from
    BY <1>t, <2>2 DEF Respond, DaemonTypes
  <2> QED  BY <2>1, <2>2
<1>3. req.from \in Clients /\ req.n \in CallNos /\ result \in BOOLEAN
  <2>1. req \in Request /\ result \in BOOLEAN
    BY <1>t, <1>1 DEF DaemonTypes
  <2> QED  BY ONLY <2>1, Fields
<1> DEFINE e == [to |-> req.from, n |-> req.n, ack |-> result, during |-> call[req.from].n]
<1>4. \/ rsps'[c] = rsps[c]
      \/ c = req.from /\ rsps'[c] = Append(rsps[c], e)
  <2>1. DOMAIN rsps = Clients
    BY <1>t DEF QueueTypes
  <2>2. Deliver(sendq')
    BY DEF Respond
  <2> QED  BY ONLY <1>2, <2>1, <2>2, c \in Clients DEF Deliver
<1>5. \A m : Due(c, m)' <=> Due(c, m)
  BY ONLY <1>1 DEF Due
<1>6. DoneInv(c)' /\ HandledInv(c)'
  BY ONLY <1>i, <1>1 DEF DoneInv, HandledInv
<1>q. \A q, k : Due(c, reqs[q][k].n) => Due(c, reqs[q][k].n)'
  BY ONLY <1>1 DEF Due
<1>7. CASE rsps'[c] = rsps[c]
  <2>1. ReqInv(c)'
    BY ONLY <1>i, <1>1, <1>q, <1>7 DEF ReqInv
  <2>2. \A k : Due(c, rsps[c][k].n) => Due(c, rsps[c][k].n)'
    BY ONLY <1>1, <1>7 DEF Due
  <2>3. RspInv(c)'
    BY ONLY <1>i, <1>1, <1>7, <2>2 DEF RspInv
  <2> QED  BY <1>6, <2>1, <2>3 DEF ChannelInv
<1>8. CASE c = req.from /\ rsps'[c] = Append(rsps[c], e)
  <2>1. /\ Len(rsps'[c]) = Len(rsps[c]) + 1 /\ Len(rsps[c]) \in Nat
        /\ \A k \in 1..Len(rsps[c]) : rsps'[c][k] = rsps[c][k]
        /\ rsps'[c][Len(rsps[c]) + 1] = e
    <3>1. rsps[c] \in Seq(Response) /\ call[c].n \in CallNos
      BY <1>t, Fields DEF QueueTypes, ClientTypes
    <3>2. e \in Response
      BY ONLY <1>3, <1>8, <3>1 DEF Response
    <3>3. Len(rsps[c]) \in Nat
      BY ONLY <3>1
    <3> HIDE DEF e
    <3> QED  BY ONLY <1>8, <3>1, <3>2, <3>3, Appended
  <2>2. e.to = c /\ e.n = req.n /\ e.ack = result /\ e.during = call[c].n
    BY ONLY <1>8
  <2> HIDE DEF e
  <2>3. /\ Due(c, req.n) /\ (result <=> <<c, req.n>> \in performed)
        /\ \A l \in 1..Len(rsps[c]) : rsps[c][l].n < req.n
    BY ONLY <1>i, <1>1, <1>8 DEF HandledInv
  <2>4. ReqInv(c)'
    <3>1. ASSUME NEW q \in Objects, NEW k \in 1..Len(reqs[q]), reqs[q][k].from = c,
                 NEW l \in 1..Len(rsps'[c])
          PROVE  rsps'[c][l].n < reqs[q][k].n
      <4>1. CASE l \in 1..Len(rsps[c])
        BY ONLY <1>i, <2>1, <3>1, <4>1 DEF ReqInv
      <4>2. CASE l = Len(rsps[c]) + 1
        BY ONLY <1>i, <1>1, <1>8, <2>1, <2>2, <3>1, <4>2 DEF ReqInv
      <4> QED  BY ONLY <2>1, <3>1, <4>1, <4>2
    <3> QED  BY ONLY <1>i, <1>1, <1>q, <3>1 DEF ReqInv
  <2>5. RspInv(c)'
    <3>1. ASSUME NEW k \in 1..Len(rsps'[c])
          PROVE  /\ rsps'[c][k].to = c
                 /\ Due(c, rsps[c][k].n)'
                 /\ rsps'[c][k].ack <=> <<c, rsps'[c][k].n>> \in performed
                 /\ \A l \in 1..k - 1 : rsps'[c][l].n < rsps'[c][k].n
                 /\ cpc[c] \in {"send", "receive"} => rsps'[c][k].during = call[c].n
      <4>1. CASE k \in 1..Len(rsps[c])
        <5>1. /\ rsps'[c][k] = rsps[c][k]
              /\ \A l \in 1..k - 1 : rsps'[c][l] = rsps[c][l]
          BY ONLY <2>1, <4>1
        <5>2. Due(c, rsps[c][k].n)
          BY ONLY <1>i, <4>1 DEF RspInv
        <5>3. Due(c, rsps[c][k].n)'
          BY ONLY <1>1, <5>1, <5>2 DEF Due
        <5> QED  BY ONLY <1>i, <4>1, <5>1, <5>3 DEF RspInv
      <4>2. CASE k = Len(rsps[c]) + 1
        <5>1. rsps'[c][k] = e
          BY ONLY <2>1, <4>2
        <5>2. \A l \in 1..k - 1 : l \in 1..Len(rsps[c]) /\ rsps'[c][l] = rsps[c][l]
          BY ONLY <2>1, <4>2
        <5>3. Due(c, rsps[c][k].n)'
          BY ONLY <1>1, <2>2, <2>3, <5>1 DEF Due
        <5> QED  BY ONLY <2>2, <2>3, <5>1, <5>2, <5>3
      <4> QED  BY ONLY <2>1, <3>1, <4>1, <4>2
    <3> QED  BY ONLY <1>1, <3>1 DEF RspInv
  <2> QED  BY <1>6, <2>4, <2>5 DEF ChannelInv
<1> QED  BY <1>4, <1>7, <1>8

\* Starting and stopping a daemon leave requests and responses alone.
LEMMA StartStopStep ==
    ASSUME IInv, NEW c \in Clients, Start \/ Exit \/ Terminated \/ Killed
    PROVE  ChannelInv(c)'
<1>i. ReqInv(c) /\ HandledInv(c) /\ RspInv(c) /\ DoneInv(c)
  BY DEF IInv, ChannelInv
<1>1. /\ dpc' # "respond"
      /\ UNCHANGED <<reqs, rsps, performed, cpc, csendq, call, ret, taken, late>>
  BY DEF Start, Exit, Terminated, Killed, Down, clientVars
<1>2. /\ \A q, k : Due(c, reqs[q][k].n) => Due(c, reqs[q][k].n)'
      /\ \A k : Due(c, rsps[c][k].n) => Due(c, rsps[c][k].n)'
  BY ONLY <1>1 DEF Due
<1>3. ReqInv(c)' /\ RspInv(c)'
  BY ONLY <1>i, <1>1, <1>2 DEF ReqInv, RspInv
<1>4. HandledInv(c)' /\ DoneInv(c)'
  BY ONLY <1>i, <1>1 DEF HandledInv, DoneInv
<1> QED  BY <1>3, <1>4 DEF ChannelInv

-----------------------------------------------------------------------------
(***************************************************************************)
(* The theorems.                                                           *)
(***************************************************************************)
\* The invariant holds at the start: all queues are empty.
LEMMA InitIInv == Init => IInv
<1> SUFFICES ASSUME Init PROVE IInv
  OBVIOUS
<1>0. \A c \in Clients : 0 \in CallNos
  BY LimitsAssumption DEF CallNos
<1>1. QueueTypes
  BY LimitsAssumption DEF Init, QueueTypes
<1>2. DaemonTypes
  <2>1. /\ dpc = "down" /\ recvq = 0 /\ sendq = NoClient /\ client_uuid = NoClient
        /\ shutdown \in BOOLEAN /\ result \in BOOLEAN /\ req \in Request \cup {NoRequest}
    BY DEF Init
  <2> QED  BY ONLY <2>1, LimitsAssumption DEF DaemonTypes
<1>3. ClientTypes
  BY <1>0, LimitsAssumption DEF Init, ClientTypes, CallRecord
<1>4. ASSUME NEW c \in Clients PROVE ChannelInv(c)
  <2>1. /\ \A q \in Objects : Len(reqs[q]) = 0
        /\ Len(rsps[c]) = 0
    BY DEF Init
  <2>2. ReqInv(c) /\ RspInv(c)
    BY ONLY <2>1 DEF ReqInv, RspInv
  <2>3. HandledInv(c) /\ DoneInv(c)
    BY DEF Init, HandledInv, DoneInv
  <2> QED  BY <2>2, <2>3 DEF ChannelInv
<1> QED  BY <1>1, <1>2, <1>3, <1>4 DEF IInv

\* ... and every step keeps it.
LEMMA NextIInv == IInv /\ [Next]_vars => IInv'
<1> SUFFICES ASSUME IInv, [Next]_vars PROVE IInv'
  OBVIOUS
<1>1. QueueTypes' /\ DaemonTypes' /\ ClientTypes'
  BY NextTypes
<1>2. ASSUME NEW c \in Clients PROVE ChannelInv(c)'
  <2>1. CASE UNCHANGED vars
    <3>1. ChannelInv(c)
      BY DEF IInv
    <3>2. UNCHANGED <<reqs, rsps, performed, cpc, csendq, call, ret, taken, late, dpc, req,
                      result>>
      BY <2>1 DEF vars, queues, daemonVars, clientVars
    <3> QED  BY ONLY <3>1, <3>2 DEF ChannelInv, ReqInv, HandledInv, RspInv, DoneInv, Due
  <2>2. ASSUME NEW d \in Clients,
               \/ Open(d) \/ ClientStep(d) \/ Send(d) \/ Close(d)
               \/ \E cmd \in Cmds, badpath \in BOOLEAN : Begin(d, cmd, badpath)
        PROVE  ChannelInv(c)'
    <3>1. CASE c = d
      BY <2>2, <3>1, OwnClient
    <3>2. CASE c # d
      <4>1. QueueTypes /\ ClientTypes /\ ChannelInv(c)
        BY DEF IInv
      <4> QED  BY <2>2, <3>2, <4>1, OtherClient
    <3> QED  BY <3>1, <3>2
  <2> QED  BY <2>1, <2>2, HandleStep, RespondStep, StartStopStep DEF Next
<1> QED  BY <1>1, <1>2 DEF IInv

\* Requests and answers of the channel always match: a response reaches the
\* client that asked, in the order of the calls, and a client none of whose
\* waits timed out takes the answer to the very call it makes
\* (nilfs_cleaner_clear_queueu(), nilfs_cleanerd_respond()).
THEOREM AnswersAlwaysMatch == Spec => []AnswersMatch
<1>1. IInv => AnswersMatch
  <2> SUFFICES ASSUME IInv PROVE AnswersMatch
    OBVIOUS
  <2>1. TypeOK
    BY TypesImplyTypeOK DEF IInv
  <2>2. \A c \in Clients : RspInv(c) /\ DoneInv(c)
    BY DEF IInv, ChannelInv
  <2>3. ResponsesInOrder
    BY ONLY <2>2 DEF ResponsesInOrder, RspInv
  <2>4. CallGetsItsAnswer
    BY ONLY <2>2 DEF CallGetsItsAnswer, DoneInv
  <2>5. OldResponsesCleared
    BY ONLY <2>2 DEF OldResponsesCleared, DoneInv
  <2> QED  BY <2>1, <2>3, <2>4, <2>5 DEF AnswersMatch
<1> QED  BY <1>1, InitIInv, NextIInv, PTL DEF Spec
=============================================================================
