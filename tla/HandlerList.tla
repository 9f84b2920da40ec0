---------------------------- MODULE HandlerList ----------------------------
(***************************************************************************)
(* The list of handlers of a gemini_server: gemini_handle() and            *)
(* gemini_handle_fn() append a node to it, gemini_serve() follows it, and  *)
(* gemini_server_close() frees it.  GeminiServer sees only the sequence    *)
(* that the pointers spell; here they are pointers, into memory that       *)
(* malloc() does not clear and that is gone once it is freed.              *)
(***************************************************************************)
EXTENDS Integers, Sequences, SequencesExt

CONSTANTS
  Nodes,  \* the addresses that malloc() may return
  Null,   \* the null pointer
  Junk    \* the value of a field that was never written, or was freed

ASSUME ListAssumption == Null \notin Nodes /\ Junk \notin Nodes /\ Null # Junk

VARIABLES
  first, last,  \* server->first and server->last
  next,         \* node->next
  what,         \* which handler a node stands for
  order,        \* history: the nodes in the order of registration
  freed,        \* history: how often a node was passed to free()
  cur           \* `handler' of the loop that frees the list

list == <<first, last, next, what, order, freed, cur>>

ListInit ==
  /\ first = Null /\ last = Null
  /\ next = [n \in Nodes |-> Junk] /\ what = [n \in Nodes |-> -1]
  /\ order = <<>>
  /\ freed = [n \in Nodes |-> 0]
  /\ cur = Null

(* Mutant: the new node keeps the next that malloc() gave it. *)
EndOfListUnset(n) == next[n]

EndOfList(n) == Null
ListHead(n)  == IF first = Null THEN n ELSE first

(* gemini_handle_fn() with gemini_handle(), for the handler h. *)
Handle(h) ==
  \E n \in Nodes \ ToSet(order) :
    /\ next' = [m \in Nodes |-> CASE m = n    -> EndOfList(n)
                                  [] m = last -> n
                                  [] OTHER    -> next[m]]
    /\ first' = ListHead(n) /\ last' = n
    /\ what' = [what EXCEPT ![n] = h]
    /\ order' = Append(order, n)
    /\ UNCHANGED <<freed, cur>>

(* Mutant: the wrong end of the list. *)
FreeFromLast == last

FreeFrom == first

(* gemini_server_close() *)
CloseBegins ==
  /\ cur' = FreeFrom
  /\ UNCHANGED <<first, last, next, what, order, freed>>

(* Mutant: the next node is looked up in the memory that was freed. *)
NextOfFreed == next'[cur]

NextOfNode == next[cur]

(* The data, the prefix and the node are freed, after next was read. *)
FreeNode ==
  /\ cur # Null
  /\ freed' = [freed EXCEPT ![cur] = @ + 1]
  /\ next' = [next EXCEPT ![cur] = Junk]
  /\ cur' = NextOfNode
  /\ UNCHANGED <<first, last, what, order>>

-----------------------------------------------------------------------------
Live(n) == freed[n] = 0

(* Following the pointers from first, as gemini_serve() does, visits the   *)
(* registered handlers in the order of registration and ends behind the    *)
(* last one, which is where the next one will be appended.                 *)
ListIsOrder ==
  (\A n \in Nodes : Live(n)) =>
    /\ first = IF order = <<>> THEN Null ELSE order[1]
    /\ last  = IF order = <<>> THEN Null ELSE order[Len(order)]
    /\ \A k \in 1..Len(order) :
         next[order[k]] = IF k = Len(order) THEN Null ELSE order[k + 1]

(* While the list is freed, the loop stands on a node that it has not      *)
(* freed: no node is read after its release and none is freed twice.       *)
FreedOnce ==
  /\ \A n \in Nodes : freed[n] <= (IF n \in ToSet(order) THEN 1 ELSE 0)
  /\ cur = Null \/ (cur \in ToSet(order) /\ Live(cur))
=============================================================================
