---------------------------- MODULE SerialServer ----------------------------
(***************************************************************************)
(* What the accept loop and its thread pool amount to for the clients: one  *)
(* server that takes connections in the order in which they were queued    *)
(* and runs the request handler on one of them at a time.  ThreadPool is    *)
(* shown to implement this specification.                                   *)
(***************************************************************************)
EXTENDS Naturals, Sequences

CONSTANTS Conns,    \* the clients, each with at most one connection at a time
          NULL,     \* no connection
          Backlog   \* MAX_QUEUED_CONNECTIONS, the length of the listen queue

VARIABLES backlog,  \* connections the kernel has queued for accept()
          cur,      \* the connection being served
          phase     \* "up", "handling" (the handler runs on cur) or "down"

vars == <<backlog, cur, phase>>

Waiting == {backlog[i] : i \in DOMAIN backlog}

Init == backlog = <<>> /\ cur = NULL /\ phase = "up"

Connect(c) == /\ c \notin Waiting /\ c # cur
              /\ Len(backlog) < Backlog
              /\ backlog' = Append(backlog, c)
              /\ UNCHANGED <<cur, phase>>

\* A connection is taken only when no other one is being served.
Take == /\ cur = NULL /\ backlog # <<>>
        /\ cur' = Head(backlog)
        /\ backlog' = Tail(backlog)
        /\ UNCHANGED phase

\* The kernel gives up a queued connection before it is accepted.
Abort == /\ backlog # <<>>
         /\ backlog' = Tail(backlog)
         /\ UNCHANGED <<cur, phase>>

\* The taken connection is closed before a handler runs on it.
Reject == /\ cur # NULL /\ phase = "up"
          /\ cur' = NULL
          /\ UNCHANGED <<backlog, phase>>

Start == /\ cur # NULL /\ phase = "up"
         /\ phase' = "handling"
         /\ UNCHANGED <<backlog, cur>>

Finish == /\ phase = "handling"
          /\ cur' = NULL /\ phase' = "up"
          /\ UNCHANGED backlog

Stop == phase # "down" /\ phase' = "down" /\ UNCHANGED <<backlog, cur>>

Next == /\ phase # "down"
        /\ \/ \E c \in Conns : Connect(c)
           \/ Take \/ Abort \/ Reject \/ Start \/ Finish \/ Stop

Spec == Init /\ [][Next]_vars
=============================================================================
