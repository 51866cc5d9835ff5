------------------------------ MODULE Glthread ------------------------------
(***************************************************************************)
(* The intrusive doubly linked list behind the thread pool, at the level of *)
(* its pointers.  The pool uses it as a stack: glthread_insert_after on the *)
(* head puts a thread in front, glthread_dequeue_first takes the first.     *)
(* ThreadPool models the list as the sequence List.                         *)
(*                                                                         *)
(* thread_init does not initialise the links of the thread it allocates:    *)
(* InitialLinks is what malloc may leave in them.  A removal that writes     *)
(* through such a link is undefined: it ends the model (undef).              *)
(***************************************************************************)
EXTENDS Naturals, Sequences, FiniteSets, Functions, Pointers

CONSTANTS Threads,      \* the nodes, one inside each thread_t
          Head0,        \* pool->head
          WILD,         \* a pointer to no node
          InitialLinks  \* the values an uninitialised link may have

ASSUME LinksAssumption == InitialLinks \subseteq {NULL, WILD} /\ NULL # WILD

Nodes == Threads \cup {Head0}

ASSUME NodesAssumption ==
  IsFiniteSet(Threads) /\ Head0 \notin Threads /\ {NULL, WILD} \cap Nodes = {}

VARIABLES next, prev,  \* the links of every node
          removed,     \* the thread thread_pool_get returned last, NULL for none
          undef        \* glthread_remove has written through a link of malloc's

listVars == <<next, prev, removed, undef>>

\* thread_pool_init clears the links of the head, nobody those of a thread.
MallocLinks == {f \in [Nodes -> {NULL, WILD}] :
                  f[Head0] = NULL /\ \A w \in Threads : f[w] \in InitialLinks}

ListInit ==
  /\ next \in MallocLinks /\ prev \in MallocLinks
  /\ removed = NULL /\ undef = FALSE

\* The nodes in front of NULL, following the links from the head.
ListOf(links) ==
  LET chain[k \in 0..Cardinality(Nodes)] ==
        [n \in Nodes |-> IF links[n] \notin Nodes \/ k = 0 THEN <<>>
                         ELSE <<links[n]>> \o chain[k - 1][links[n]]]
  IN  chain[Cardinality(Nodes)][Head0]

List == ListOf(next)

InList(w) == w \in Range(List)

\* Mutant: the old first node keeps its back link.
InsertLosesBackLink(mark, n) ==
  /\ next' = [next EXCEPT ![mark] = n,
                          ![n] = IF next[mark] = NULL THEN @ ELSE next[mark]]
  /\ prev' = [prev EXCEPT ![n] = mark]

\* Behind an empty mark only the mark's next and the node's prev are written.
glthread_insert_after(mark, n) ==
  IF next[mark] = NULL
  THEN /\ next' = [next EXCEPT ![mark] = n]
       /\ prev' = [prev EXCEPT ![n] = mark]
  ELSE /\ next' = [next EXCEPT ![mark] = n, ![n] = next[mark]]
       /\ prev' = [prev EXCEPT ![n] = mark, ![next[mark]] = n]

\* Mutant: a removal cuts the list off behind the removed node.
RemoveCutsList(m) ==
  /\ next' = [next EXCEPT ![prev[m]] = NULL, ![m] = NULL]
  /\ prev' = [prev EXCEPT ![m] = NULL]

\* glthread_remove for a node with a predecessor: every node of the list has one.
glthread_remove(m) ==
  LET p == prev[m]
      n == next[m]
  IN  IF n = NULL
      THEN /\ next' = [next EXCEPT ![p] = NULL]
           /\ prev' = [prev EXCEPT ![m] = NULL]
      ELSE /\ next' = [next EXCEPT ![p] = n, ![m] = NULL]
           /\ prev' = [x \in Nodes |-> IF x = m THEN NULL
                                       ELSE IF x = n THEN p ELSE prev[x]]

\* setup_thread_pool and thread_pool_resuspend.
InsertThread(w) ==
  /\ ~undef /\ ~InList(w)
  /\ glthread_insert_after(Head0, w)
  /\ removed' = NULL /\ UNCHANGED undef

\* thread_pool_get: NULL on an empty list.  mark->next->prev = ... of a thread
\* whose next link is WILD writes anywhere.
glthread_dequeue_first ==
  /\ ~undef
  /\ removed' = next[Head0]
  /\ IF next[Head0] = NULL THEN UNCHANGED <<next, prev, undef>>
     ELSE IF next[next[Head0]] = WILD THEN undef' = TRUE /\ UNCHANGED <<next, prev>>
     ELSE glthread_remove(next[Head0]) /\ UNCHANGED undef

ListEnded == undef /\ UNCHANGED listVars

ListNext == (\E w \in Threads : InsertThread(w)) \/ glthread_dequeue_first \/ ListEnded

ListSpec == ListInit /\ [][ListNext]_listVars

-----------------------------------------------------------------------------

\* Following next from the head meets threads of the pool only, each once, and
\* prev leads back: glued() is never applied to anything but a thread.  The list
\* ends in NULL, or in a link that nobody has written yet.  A thread that was just
\* removed has no links, as thread_pool_exec asserts of it ("provided thread must
\* be 'active' i.e. not in the thread pool currently").
ListWellFormed ==
  LET s    == <<Head0>> \o List
      last == next[s[Len(s)]]
  IN  ~undef =>
        /\ \A i \in 1 .. Len(s) - 1 : prev[s[i + 1]] = s[i]
        /\ last = NULL \/ (List # <<>> /\ last \in InitialLinks)
        /\ removed # NULL => next[removed] = NULL /\ prev[removed] = NULL

\* The pointer operations implement the stack of ThreadPool: an insertion puts
\* one thread in front, a dequeue returns and removes the first.  Whatever malloc
\* left in the links, only the removal of a thread that is alone in the list can
\* go through one of them: a pool with a thread to spare is out of danger.
StackDiscipline ==
  [][\/ \E w \in Threads : List' = <<w>> \o List
     \/ List # <<>> /\ removed' = List[1] /\ List' = Tail(List)
     \/ List = <<>> /\ removed' = NULL /\ List' = <<>>
     \/ undef' /\ Len(List) = 1 /\ WILD \in InitialLinks]_listVars
=============================================================================
