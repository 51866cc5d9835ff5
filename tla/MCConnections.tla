---------------------------- MODULE MCConnections ---------------------------
(***************************************************************************)
(* How connections are served and what the data structures below it         *)
(* promise, for TLC: the accept loop with its threads, the exchange on a    *)
(* connection, the trie of the routes, the list of idle threads and the     *)
(* hash tables.  They share no variable: a behaviour is one of theirs, and  *)
(* the others stay in one initial state.                                    *)
(***************************************************************************)
EXTENDS ThreadPool, Exchange, MCTrie, Glthread, MCHashTable

VARIABLE part   \* the component at work

poolState == vars
partVars == <<part, poolState, exchangeVars, trieVars, listVars, hashVars>>

Parts == {"pool", "exchange", "trie", "list", "hash"}

\* Where a component that is not at work stays.
PoolRests     == part # "pool" => ~sslctx
ExchangeRests == part # "exchange" => req = CHOOSE r \in Requests : TRUE
ListRests     == part # "list" => \A n \in Nodes : next[n] = NULL /\ prev[n] = NULL
HashRests     == part # "hash" => kind = "set"

ConnectionsInit ==
  /\ part \in Parts
  /\ Init /\ PoolRests
  /\ ExchangeInit /\ ExchangeRests
  /\ TrieInit
  /\ HashInit /\ HashRests
  /\ ListInit /\ ListRests

PoolStep == part = "pool" /\ Next /\ UNCHANGED <<part, exchangeVars, trieVars, listVars, hashVars>>
ExchangeStep ==
  part = "exchange" /\ ExchangeNext /\ UNCHANGED <<part, poolState, trieVars, listVars, hashVars>>
TrieStep ==
  part = "trie" /\ TrieNext /\ UNCHANGED <<part, poolState, exchangeVars, listVars, hashVars>>
ListStep ==
  part = "list" /\ ListNext /\ UNCHANGED <<part, poolState, exchangeVars, trieVars, hashVars>>
HashStep ==
  part = "hash" /\ HashNext /\ UNCHANGED <<part, poolState, exchangeVars, trieVars, listVars>>

ConnectionsNext == PoolStep \/ ExchangeStep \/ TrieStep \/ ListStep \/ HashStep

\* The fairness of FairSpec and of ExchangeSpec.
ConnectionsFairness ==
  /\ WF_partVars(PoolStep /\ MainProgress)
  /\ WF_partVars(PoolStep /\ (SslAccept \/ SslAcceptFail))
  /\ \A w \in Workers : /\ WF_partVars(PoolStep /\ WorkerProgress(w))
                        /\ WF_partVars(PoolStep /\ HandlerReturn(w))
  /\ WF_partVars(ExchangeStep /\ ServerStep)

ConnectionsSpec ==
  ConnectionsInit /\ [][ConnectionsNext]_partVars /\ ConnectionsFairness
=============================================================================
