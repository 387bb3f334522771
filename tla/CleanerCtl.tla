----------------------------- MODULE CleanerCtl -----------------------------
(***************************************************************************)
(* The control channel of the cleaner: clients of lib/cleaner_ctl.c send   *)
(* requests through the POSIX message queue of the daemon and wait for the *)
(* response on a queue of their own, named after their uuid.               *)
(*                                                                         *)
(* A queue is an object that outlives its name: who has it open keeps      *)
(* using it after mq_unlink().  A daemon that is killed leaves its name,   *)
(* and the requests in the queue, to the next one.                         *)
(***************************************************************************)
EXTENDS Integers, Sequences

CONSTANTS
    Clients,       \* one element per nilfs_cleaner object, hence per uuid
    NoClient,      \* stands for a closed descriptor and for a cleared uuid
    Cmds,          \* the commands this instance considers
    RequestMax,    \* mq_maxmsg of the daemon's queue (6 in the code)
    ResponseMax,   \* mq_maxmsg of a client's queue (3 in the code)
    MaxCalls,      \* bound: calls made by each client
    MaxStarts      \* bound: daemons started one after another

ASSUME NoClientAssumption == NoClient \notin Clients
ASSUME CmdsAssumption ==
    Cmds \subseteq {"get_status", "run", "suspend", "resume", "tune", "reload",
                    "wait", "stop", "shutdown"}
ASSUME LimitsAssumption ==
    /\ RequestMax \in Nat \ {0} /\ ResponseMax \in Nat \ {0}
    /\ MaxCalls \in [Clients -> Nat] /\ MaxStarts \in Nat

VARIABLES
    \* the message queues (external): the object the daemon's well-known
    \* name denotes, or 0; the requests in each object, the responses in
    \* each client's queue, the clients whose queue still has its name
    name, reqs, rsps, linked,
    \* struct nilfs_cleanerd, as far as the channel is concerned
    dpc, recvq, sendq, client_uuid, shutdown, req, result,
    \* struct nilfs_cleaner, the call going on or last made, what it returned
    \* and the response it took
    cpc, csendq, call, ret, taken,
    \* history: clients a wait of which timed out, requests carried out
    late, performed,
    nstarts

queues     == <<name, reqs, rsps, linked>>
daemonVars == <<dpc, recvq, sendq, client_uuid, shutdown, req, result>>
clientVars == <<cpc, csendq, call, ret, taken>>
vars == <<queues, daemonVars, clientVars, late, performed, nstarts>>

Objects == 1..MaxStarts
CallNos == UNION {0..MaxCalls[c] : c \in Clients}

\* A request, and a response with the number of the call during which it
\* reached the client (the last one the client had begun).
Request  == [from : Clients, n : CallNos, cmd : Cmds]
Response == [to : Clients, n : CallNos, ack : BOOLEAN, during : CallNos]

NoRequest  == [from |-> NoClient, n |-> 0]
NoResponse == [to |-> NoClient, n |-> 0]

TypeOK ==
    /\ name \in 0..MaxStarts
    /\ reqs \in [Objects -> Seq(Request)]
    /\ rsps \in [Clients -> Seq(Response)]
    /\ \A q \in Objects : Len(reqs[q]) <= RequestMax
    /\ \A c \in Clients : Len(rsps[c]) <= ResponseMax
    /\ linked \subseteq Clients
    /\ dpc \in {"down", "wait", "respond"}
    /\ recvq \in 0..MaxStarts
    /\ sendq \in Clients \cup {NoClient} /\ client_uuid \in Clients \cup {NoClient}
    /\ shutdown \in BOOLEAN
    /\ req \in Request \cup {NoRequest} /\ result \in BOOLEAN
    /\ cpc \in [Clients -> {"new", "idle", "clear", "send", "receive", "gone"}]
    /\ csendq \in [Clients -> 0..MaxStarts]
    /\ call \in [Clients -> [n : CallNos, cmd : Cmds \cup {"none"}, badpath : BOOLEAN]]
    /\ ret \in [Clients -> {"none", "ok", "error", "timeout"}]
    /\ taken \in [Clients -> Response \cup {NoResponse}]
    /\ late \subseteq Clients
    /\ performed \subseteq Clients \X CallNos
    /\ nstarts \in 0..MaxStarts

Init ==
    /\ name = 0 /\ reqs = [q \in Objects |-> <<>>]
    /\ rsps = [c \in Clients |-> <<>>] /\ linked = {}
    /\ dpc = "down" /\ recvq = 0 /\ sendq = NoClient /\ client_uuid = NoClient
    /\ shutdown = FALSE /\ req = NoRequest /\ result = FALSE
    /\ cpc = [c \in Clients |-> "new"] /\ csendq = [c \in Clients |-> 0]
    /\ call = [c \in Clients |-> [n |-> 0, cmd |-> "none", badpath |-> FALSE]]
    /\ ret = [c \in Clients |-> "none"]
    /\ taken = [c \in Clients |-> NoResponse]
    /\ late = {} /\ performed = {} /\ nstarts = 0

-----------------------------------------------------------------------------
(***************************************************************************)
(* The client library.                                                     *)
(***************************************************************************)
GoTo(c, p) == cpc' = [cpc EXCEPT ![c] = p]

\* nilfs_cleaner_open_queue(): without a daemon's queue to open, the client
\* closes and unlinks its own queue again.
Open(c) ==
    /\ cpc[c] = "new"
    /\ IF name # 0
       THEN /\ GoTo(c, "idle")
            /\ csendq' = [csendq EXCEPT ![c] = name]
            /\ linked' = linked \cup {c}
       ELSE GoTo(c, "gone") /\ UNCHANGED <<csendq, linked>>
    /\ UNCHANGED <<name, reqs, rsps, daemonVars, call, ret, taken, late,
                   performed, nstarts>>

\* A command function is entered.  reload may be given a path that
\* myrealpath() cannot resolve.
Begin(c, cmd, badpath) ==
    /\ cpc[c] = "idle" /\ call[c].n < MaxCalls[c]
    /\ badpath => cmd = "reload"
    /\ call' = [call EXCEPT ![c] = [n |-> call[c].n + 1, cmd |-> cmd, badpath |-> badpath]]
    /\ ret' = [ret EXCEPT ![c] = "none"]
    /\ taken' = [taken EXCEPT ![c] = NoResponse]
    /\ GoTo(c, "clear")
    /\ UNCHANGED <<queues, daemonVars, csendq, late, performed, nstarts>>

\* nilfs_cleaner_clear_queueu(): one more response is thrown away.
ClearOne(c) ==
    /\ cpc[c] = "clear" /\ rsps[c] # <<>>
    /\ rsps' = [rsps EXCEPT ![c] = Tail(@)]
    /\ UNCHANGED <<name, reqs, linked, daemonVars, clientVars, late,
                   performed, nstarts>>

\* Mutation of ClearDone: the old responses are left in the queue.
ClearSkipped(c) ==
    /\ cpc[c] = "clear" /\ GoTo(c, "send")
    /\ UNCHANGED <<queues, daemonVars, csendq, call, ret, taken, late,
                   performed, nstarts>>

\* The queue was found empty.  A reload with a bad path ends here, without
\* having sent anything, and returns what the clearing returned.
ClearDone(c) ==
    /\ cpc[c] = "clear" /\ rsps[c] = <<>>
    /\ IF call[c].badpath
       THEN GoTo(c, "idle") /\ ret' = [ret EXCEPT ![c] = "ok"]
       ELSE GoTo(c, "send") /\ UNCHANGED ret
    /\ UNCHANGED <<queues, daemonVars, csendq, call, taken, late, performed,
                   nstarts>>

Message(c) == [from |-> c, n |-> call[c].n, cmd |-> call[c].cmd]

\* Mutation of Send: the request is sent again after an interruption,
\* although it was already in the queue.
SendRetried(c) ==
    /\ cpc[c] = "send" /\ Len(reqs[csendq[c]]) + 1 < RequestMax
    /\ reqs' = [reqs EXCEPT ![csendq[c]] = @ \o <<Message(c), Message(c)>>]
    /\ GoTo(c, "receive")
    /\ UNCHANGED <<name, rsps, linked, daemonVars, csendq, call, ret, taken,
                   late, performed, nstarts>>

\* Mutation of Send: the limit of the queue is not observed.
SendUnbounded(c) ==
    /\ cpc[c] = "send"
    /\ reqs' = [reqs EXCEPT ![csendq[c]] = Append(@, Message(c))]
    /\ GoTo(c, "receive")
    /\ UNCHANGED <<name, rsps, linked, daemonVars, csendq, call, ret, taken,
                   late, performed, nstarts>>

\* mq_send(): waits while the queue is full, whether or not a daemon reads it.
Send(c) ==
    /\ cpc[c] = "send" /\ Len(reqs[csendq[c]]) < RequestMax
    /\ reqs' = [reqs EXCEPT ![csendq[c]] = Append(@, Message(c))]
    /\ GoTo(c, "receive")
    /\ UNCHANGED <<name, rsps, linked, daemonVars, csendq, call, ret, taken,
                   late, performed, nstarts>>

\* mq_receive(): the oldest response is taken for the answer.
Receive(c) ==
    /\ cpc[c] = "receive" /\ rsps[c] # <<>>
    /\ rsps' = [rsps EXCEPT ![c] = Tail(@)]
    /\ taken' = [taken EXCEPT ![c] = Head(rsps[c])]
    /\ ret' = [ret EXCEPT ![c] = IF Head(rsps[c]).ack THEN "ok" ELSE "error"]
    /\ GoTo(c, "idle")
    /\ UNCHANGED <<name, reqs, linked, daemonVars, csendq, call, late,
                   performed, nstarts>>

\* nilfs_cleaner_wait(), nilfs_cleaner_wait_r(): the request stays sent.
TimeOut(c) ==
    /\ cpc[c] = "receive" /\ rsps[c] = <<>> /\ call[c].cmd = "wait"
    /\ ret' = [ret EXCEPT ![c] = "timeout"]
    /\ late' = late \cup {c}
    /\ GoTo(c, "idle")
    /\ UNCHANGED <<queues, daemonVars, csendq, call, taken, performed, nstarts>>

\* nilfs_cleaner_close(), at the end or, from the signal handler of
\* nilfs-clean, in the middle of a call.
Close(c) ==
    /\ cpc[c] \in {"idle", "clear", "send", "receive"}
    /\ GoTo(c, "gone") /\ linked' = linked \ {c}
    /\ UNCHANGED <<name, reqs, rsps, daemonVars, csendq, call, ret, taken,
                   late, performed, nstarts>>

-----------------------------------------------------------------------------
(***************************************************************************)
(* The daemon.                                                             *)
(***************************************************************************)

\* nilfs_cleanerd_open_queue(): a queue that exists is taken over with what
\* is in it.  A daemon is started when none is left on the device.
Start ==
    /\ dpc = "down" /\ nstarts < MaxStarts
    /\ nstarts' = nstarts + 1
    /\ name' = IF name = 0 THEN nstarts + 1 ELSE name
    /\ recvq' = name'
    /\ dpc' = "wait" /\ shutdown' = FALSE
    /\ sendq' = NoClient /\ client_uuid' = NoClient
    /\ UNCHANGED <<reqs, rsps, linked, req, result, clientVars, late, performed>>

\* Whether the daemon carries a command out.
Carried(cmd, ok) ==
    CASE cmd \in {"tune", "wait"}   -> ok = FALSE   \* not yet implemented
      [] cmd \in {"run", "reload"}  -> ok \in BOOLEAN \* depends on the arguments
      [] OTHER                      -> ok = TRUE

\* nilfs_cleanerd_wait() and nilfs_cleanerd_handle_message(), up to the
\* response.
Handle ==
    /\ dpc = "wait" /\ ~shutdown /\ reqs[recvq] # <<>>
    /\ reqs' = [reqs EXCEPT ![recvq] = Tail(@)]
    /\ req' = Head(reqs[recvq])
    /\ result' \in BOOLEAN /\ Carried(req'.cmd, result')
    /\ performed' = IF result' THEN performed \cup {<<req'.from, req'.n>>}
                               ELSE performed
    /\ shutdown' = (req'.cmd = "shutdown")
    /\ dpc' = "respond"
    /\ UNCHANGED <<name, rsps, linked, recvq, sendq, client_uuid, clientVars,
                   late, nstarts>>

\* The response goes to the queue behind descriptor q, unless that is full.
Deliver(q) ==
    IF q # NoClient /\ Len(rsps[q]) < ResponseMax
    THEN rsps' = [rsps EXCEPT ![q] =
             Append(@, [to |-> req.from, n |-> req.n, ack |-> result,
                        during |-> call[q].n])]
    ELSE UNCHANGED rsps

Responded ==
    /\ dpc = "respond" /\ dpc' = "wait"
    /\ req' = NoRequest /\ result' = FALSE
    /\ UNCHANGED <<name, reqs, linked, recvq, shutdown, clientVars, late,
                   performed, nstarts>>

\* Mutations of Respond: an open descriptor is used whoever sent the
\* request; a descriptor that could not be opened is used again.
RespondToLast ==
    /\ Responded
    /\ IF sendq = NoClient
       THEN /\ sendq' = IF req.from \in linked THEN req.from ELSE NoClient
            /\ client_uuid' = IF req.from \in linked THEN req.from ELSE client_uuid
       ELSE UNCHANGED <<sendq, client_uuid>>
    /\ Deliver(sendq')
RespondClosed ==
    /\ Responded
    /\ IF client_uuid # req.from
       THEN /\ sendq' = IF req.from \in linked THEN req.from ELSE NoClient
            /\ client_uuid' = IF req.from \in linked THEN req.from ELSE client_uuid
       ELSE UNCHANGED <<sendq, client_uuid>>
    /\ Deliver(sendq')

\* nilfs_cleanerd_respond(): the client's queue is opened unless it was the
\* last one used.  Failures are logged and forgotten.
Respond ==
    /\ Responded
    /\ IF sendq = NoClient \/ client_uuid # req.from
       THEN /\ sendq' = IF req.from \in linked THEN req.from ELSE NoClient
            /\ client_uuid' = IF req.from \in linked THEN req.from ELSE client_uuid
       ELSE UNCHANGED <<sendq, client_uuid>>
    /\ Deliver(sendq')

Down ==
    /\ dpc' = "down" /\ recvq' = 0 /\ sendq' = NoClient /\ client_uuid' = NoClient
    /\ shutdown' = FALSE /\ req' = NoRequest /\ result' = FALSE
    /\ UNCHANGED <<reqs, rsps, linked, clientVars, late, performed, nstarts>>

\* The loop ends after a shutdown command; nilfs_cleanerd_close_queue().
Exit == dpc = "wait" /\ shutdown /\ Down /\ name' = 0

\* SIGTERM or SIGINT: siglongjmp() out of whatever is going on, then the same.
Terminated == dpc # "down" /\ Down /\ name' = 0

\* SIGKILL, or a crash.
Killed == dpc # "down" /\ Down /\ UNCHANGED name

-----------------------------------------------------------------------------
ClientStep(c) == ClearOne(c) \/ ClearDone(c) \/ Receive(c) \/ TimeOut(c)

Next ==
    \/ \E c \in Clients :
          \/ Open(c) \/ ClientStep(c) \/ Send(c) \/ Close(c)
          \/ \E cmd \in Cmds, badpath \in BOOLEAN : Begin(c, cmd, badpath)
    \/ Start \/ Handle \/ Respond \/ Exit \/ Terminated \/ Killed

Spec == Init /\ [][Next]_vars

\* A client in a call runs on, and senders waiting for room in a queue are
\* let in in the order they came.  The daemon returns to its queue: it sleeps
\* between two passes.  Nobody has to be started, closed or killed.
Fairness ==
    /\ \A c \in Clients :
          /\ WF_vars(ClearOne(c) \/ ClearDone(c) \/ Receive(c))
          /\ SF_vars(Send(c))
    /\ WF_vars(Handle \/ Respond \/ Exit)

FairSpec == Spec /\ Fairness

-----------------------------------------------------------------------------
(***************************************************************************)
(* Properties.                                                             *)
(***************************************************************************)

\* Responses are routed by uuid and nothing overtakes: a client's queue holds
\* answers to its own requests only, each once, in the order it made them
\* (nilfs_cleanerd_respond() keeps the descriptor of the last client open).
ResponsesInOrder ==
    \A c \in Clients : \A i \in 1..Len(rsps[c]) :
        /\ rsps[c][i].to = c
        /\ \A j \in 1..i - 1 : rsps[c][j].n < rsps[c][i].n

\* A client none of whose waits timed out takes the answer to the very call
\* it makes, although responses carry no identification: it reports success
\* exactly when the daemon carried the command out.
CallGetsItsAnswer ==
    \A c \in Clients \ late :
        cpc[c] = "idle" /\ taken[c] # NoResponse =>
            /\ taken[c].n = call[c].n
            /\ ret[c] = "ok" <=> <<c, call[c].n>> \in performed

\* Clearing the queue first makes sure of that much for every client: what
\* is taken for the answer arrived during the call, even if it answers an
\* earlier wait that timed out.
OldResponsesCleared ==
    \A c \in Clients : taken[c] # NoResponse => taken[c].during = call[c].n

InCall(c)  == cpc[c] \in {"clear", "send", "receive"}
Served(c)  == dpc # "down" /\ recvq = csendq[c] /\ ~shutdown
Pending(c) ==
    \/ cpc[c] \in {"clear", "send"} \/ rsps[c] # <<>> \/ req.from = c
    \/ \E i \in 1..Len(reqs[csendq[c]]) : reqs[csendq[c]][i].from = c

\* A call returns, although it waits for room, and for its answer, without a
\* time limit: unless the daemon stops serving the queue it was sent to, and
\* takes the request with it.
CommandReturns ==
    \A c \in Clients :
        InCall(c) /\ Served(c) /\ Pending(c) ~> ~InCall(c) \/ ~Served(c)

\* Requests and answers of cleaner_ctl.c and cleanerd.c match, although answers
\* carry no identification: the right queue, the right order, the right call.
AnswersMatch == TypeOK /\ ResponsesInOrder /\ CallGetsItsAnswer /\ OldResponsesCleared
=============================================================================
