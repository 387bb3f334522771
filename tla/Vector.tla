-------------------------------- MODULE Vector --------------------------------
(***************************************************************************)
(* lib/vector.c, the resizable array all lists of the cleaner are kept in: *)
(* the memory of the array, with what is left in it from before, against   *)
(* the list its user means to have.  Sizes are those of a small size_t.    *)
(***************************************************************************)
EXTENDS Integers, Sequences, FiniteSets

CONSTANTS
    INIT_MAXELEMS,  \* NILFS_VECTOR_INIT_MAXELEMS
    FACTOR,         \* NILFS_VECTOR_FACTOR
    VecElemSizes,   \* the element sizes (v_elemsize)
    SIZE_MAX,       \* the largest size_t
    VecCounts,      \* the numbers of elements to insert or delete
    MaxOps          \* bound: operations on one vector

ASSUME VecAssumption ==
    /\ INIT_MAXELEMS \in Nat /\ FACTOR \in Nat \ {0} /\ SIZE_MAX \in Nat /\ MaxOps \in Nat
    /\ VecElemSizes \subseteq Nat \ {0} /\ VecCounts \subseteq Nat
    \* nilfs_vector_create() asks malloc() for as much.
    /\ \A e \in VecElemSizes : INIT_MAXELEMS * e <= SIZE_MAX

VARIABLE vec        \* the fields of the vector, the list meant, operations so far, the call going on

\* nilfs_vector_create(): memory of any content (0).
VecInit ==
    \E e \in VecElemSizes :
        vec = [pc |-> "on", elemsize |-> e, maxelems |-> INIT_MAXELEMS, nelems |-> 0,
               data |-> [k \in 0 .. INIT_MAXELEMS - 1 |-> 0], list |-> <<>>, ops |-> 0,
               index |-> 0, n |-> 0, size |-> 0]
VecOff == vec = [pc |-> "off"]

Op == vec.pc = "on" /\ vec.ops < MaxOps

\* realloc(): what fits stays, the rest is of any content.
Realloc(data, max) == [k \in 0 .. max - 1 |-> IF k \in DOMAIN data THEN data[k] ELSE 0]

\* A call that makes room for n elements at index: the array is enlarged first,
\* if that is needed.
Adding(index, n) ==
    vec' = [vec EXCEPT !.pc = IF vec.nelems + n > vec.maxelems THEN "enlarge" ELSE "add",
                       !.index = index, !.n = n, !.size = vec.maxelems]

Enlarged(size) == vec' = [vec EXCEPT !.pc = "add", !.maxelems = size, !.data = Realloc(@, size)]
VecFailed == vec' = [vec EXCEPT !.pc = "on", !.index = 0, !.n = 0, !.size = 0]

nelems_limit == (SIZE_MAX \div FACTOR) \div vec.elemsize

\* Mutation of nilfs_vector_enlarge: the array grows once.
nilfs_vector_enlarge_once ==
    /\ vec.pc = "enlarge"
    /\ IF vec.size > nelems_limit THEN VecFailed ELSE Enlarged(vec.size * FACTOR) \/ VecFailed

\* One iteration of the loop of nilfs_vector_enlarge(): EOVERFLOW, the next size,
\* or realloc(), which may fail.
nilfs_vector_enlarge ==
    /\ vec.pc = "enlarge"
    /\ IF vec.size > nelems_limit THEN VecFailed
       ELSE IF vec.size * FACTOR < vec.nelems + vec.n THEN vec' = [vec EXCEPT !.size = @ * FACTOR]
       ELSE Enlarged(vec.size * FACTOR) \/ VecFailed

Value == vec.ops + 1

\* The array with v in n elements from index k on; what a store outside the
\* array hits is not modelled, nelems then being above maxelems.
Store(data, k, n, v) == [x \in DOMAIN data |-> IF x \in k .. k + n - 1 THEN v ELSE data[x]]

\* memmove() of n elements.
Memmove(data, to, from, n) ==
    [k \in DOMAIN data |-> IF k \in to .. to + n - 1 THEN Realloc(data, from + n)[from + k - to] ELSE data[k]]

\* nilfs_vector_get_new_element(): one element at the end.
nilfs_vector_get_new_element == Op /\ Adding(vec.nelems, 1)

\* nilfs_vector_insert_elements() at any index.
nilfs_vector_insert_elements(index, n) ==
    /\ Op
    /\ index <= vec.nelems /\ n <= SIZE_MAX - vec.nelems
    /\ Adding(index, n)

\* The rest of both: what is behind moves up, and the user stores into the
\* elements returned.
AddElements ==
    LET moved == IF vec.index < vec.nelems
                 THEN Memmove(vec.data, vec.index + vec.n, vec.index, vec.nelems - vec.index) ELSE vec.data
    IN  /\ vec.pc = "add"
        /\ vec' = [vec EXCEPT !.pc = "on", !.nelems = @ + vec.n, !.ops = @ + 1,
                              !.data = Store(moved, vec.index, vec.n, Value),
                              !.list = SubSeq(@, 1, vec.index) \o [k \in 1 .. vec.n |-> Value]
                                       \o SubSeq(@, vec.index + 1, Len(@)),
                              !.index = 0, !.n = 0, !.size = 0]

\* nilfs_vector_delete_elements(); EINVAL leaves the vector as it is.  The test
\* is in size_t, so that deleting none at index 0 is an error.
nilfs_vector_delete_elements(index, n) ==
    LET last == (index + n - 1) % (SIZE_MAX + 1)
    IN  /\ Op
        /\ index < vec.nelems /\ last < vec.nelems
        /\ vec' = [vec EXCEPT !.data = IF last < vec.nelems - 1
                                       THEN Memmove(@, index, index + n, vec.nelems - (index + n)) ELSE @,
                              !.nelems = @ - n, !.ops = @ + 1,
                              !.list = SubSeq(@, 1, index) \o SubSeq(@, index + n + 1, Len(@))]

\* nilfs_vector_clear(): shrinks a grown array, if realloc() can.
nilfs_vector_clear ==
    /\ Op
    /\ \E shrink \in BOOLEAN :
          /\ shrink => vec.maxelems > INIT_MAXELEMS
          /\ vec' = [vec EXCEPT !.maxelems = IF shrink THEN INIT_MAXELEMS ELSE @,
                                !.data = IF shrink THEN Realloc(@, INIT_MAXELEMS) ELSE @,
                                !.nelems = 0, !.list = <<>>, !.ops = @ + 1]

\* No caller deletes a range that wraps around in size_t, which the test of
\* nilfs_vector_delete_elements() would let pass.
VecNext ==
    \/ nilfs_vector_get_new_element
    \/ vec.pc = "on" /\ \E index \in 0 .. vec.nelems, n \in VecCounts :
          \/ nilfs_vector_insert_elements(index, n)
          \/ index + n <= SIZE_MAX /\ nilfs_vector_delete_elements(index, n)
    \/ nilfs_vector_enlarge \/ AddElements
    \/ nilfs_vector_clear

VecSpec == VecInit /\ [][VecNext]_vec

---------------------------------------------------------------------------
\* Whatever the order of growing, shrinking, inserting and deleting, the array
\* holds the list its user made, in memory it has allocated, whose size in bytes
\* a size_t can express.
VectorIsList ==
    vec.pc # "off" =>
        /\ vec.nelems = Len(vec.list) /\ vec.nelems <= vec.maxelems
        /\ vec.maxelems * vec.elemsize <= SIZE_MAX
        /\ \A k \in 1 .. vec.nelems : vec.data[k - 1] = vec.list[k]
===============================================================================
