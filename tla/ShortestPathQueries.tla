------------------------ MODULE ShortestPathQueries ------------------------
(***************************************************************************)
(* What an object that answers shortest-path queries promises, with a      *)
(* hierarchy or without one: the reply to a question is the distance in    *)
(* the graph that was read, whatever was asked before, and no question is  *)
(* taken before the one before it has its reply.                           *)
(***************************************************************************)
EXTENDS ShortestPaths

CONSTANTS Graphs,                \* the graphs, as sets of edges
          NoQuestion, NoReply    \* there is none yet

VARIABLES graph, question, reply

query_vars == <<graph, question, reply>>

Init ==
  /\ graph \in Graphs
  /\ question = NoQuestion /\ reply = NoReply

Ask ==
  /\ question = NoQuestion \/ reply # NoReply
  /\ question' \in Nodes \X Nodes
  /\ reply' = NoReply
  /\ UNCHANGED graph

Reply ==
  /\ question # NoQuestion /\ reply = NoReply
  /\ UNCHANGED <<graph, question>>
  /\ reply' = DistanceOrNone(graph, question[1], question[2])

Next == Ask \/ Reply

Spec == Init /\ [][Next]_query_vars

(* Every question gets its reply.                                          *)
QuestionsAnswered == question # NoQuestion ~> reply # NoReply
=============================================================================
