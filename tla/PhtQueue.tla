------------------------------ MODULE PhtQueue ------------------------------
(***************************************************************************)
(* pht\Queue used by a thread that holds its lock: the linked list of      *)
(* pht_queue.c, node by node, under the methods of queue.c.  (The list of  *)
(* tasks of a Thread is the same structure.)                               *)
(***************************************************************************)
EXTENDS Naturals, Sequences, SequencesExt, PropertyTable

CONSTANTS Entries, \* bound: entries that exist at one time
          Nodes,   \* bound: list nodes that exist at one time
          Null, Nothing, Error

ASSUME NodesAssumption == IsFiniteSet(Nodes) /\ Null \notin Nodes \cup Entries

VARIABLES heap,     \* the nodes malloc has returned: element and next
          elements, \* queue->elements
          last,     \* queue->last
          size,     \* queue->size
          entries,  \* the entries that are allocated
          out       \* what the last call returned

listVars == <<heap, elements, last, size, entries, out>>
vars == <<listVars, tableVars>>

(* The nodes reachable from elements, in order: from each node, and for as *)
(* many steps as there are nodes at most.                                  *)
Reachable[steps \in 0..Cardinality(Nodes)] ==
  [n \in Nodes \cup {Null} |->
     IF n = Null \/ steps = 0 THEN <<>> ELSE <<n>> \o Reachable[steps - 1][heap[n].next]]
Walk == Reachable[Cardinality(Nodes)][elements]
Content == [i \in 1..Len(Walk) |-> heap[Walk[i]].element]

Init == /\ heap = [n \in {} |-> Null]
        /\ elements = Null /\ last = Null /\ size = 0
        /\ entries = {} /\ out = Nothing /\ TableInit

(* pht_queue_push.                                                         *)
LinkTo(n, e) == [element |-> e, next |-> Null]
Linked_DropsTail(n, e) == [m \in DOMAIN heap \cup {n} |->
                             IF m = n THEN LinkTo(n, e) ELSE heap[m]]
Linked(n, e) == [m \in DOMAIN heap \cup {n} |->
                   IF m = n THEN LinkTo(n, e)
                   ELSE IF elements # Null /\ m = last THEN [heap[m] EXCEPT !.next = n]
                   ELSE heap[m]]

(* Queue::push of a value that can be serialised, and of one that cannot.  *)
Push(e, n) ==
  /\ e \in Entries \ entries /\ n \in Nodes \ DOMAIN heap
  /\ entries' = entries \cup {e}
  /\ heap' = Linked(n, e)
  /\ elements' = IF elements = Null THEN n ELSE elements
  /\ last' = n /\ size' = size + 1 /\ out' = Nothing /\ Bump

PushFails == out' = Error /\ UNCHANGED <<heap, elements, last, size, entries, current>>

(* pht_queue_pop: queue->last when the list becomes empty.                 *)
LastAfterPop_Stale(next) == last
LastAfterPop(next) == IF next = Null THEN Null ELSE last
Unlinked_KeepsNode == heap
Unlinked == [n \in DOMAIN heap \ {elements} |-> heap[n]]

(* Queue::pop: the entry is unlinked, converted, then deleted.             *)
Pop ==
  /\ elements # Null
  /\ LET node == heap[elements] IN
       /\ elements' = node.next /\ last' = LastAfterPop(node.next)
       /\ out' = node.element /\ entries' = entries \ {node.element}
  /\ heap' = Unlinked /\ size' = size - 1 /\ Bump

(* Queue::front.                                                           *)
Peek == /\ elements # Null /\ out' = heap[elements].element
        /\ UNCHANGED <<heap, elements, last, size, entries, current>>

(* pop() and front() of an empty queue.                                    *)
EmptyFails == elements = Null /\ out' = Error
              /\ UNCHANGED <<heap, elements, last, size, entries, current>>

(* qo_get_properties, of a queue that pht_queue_to_zend_hashtable walks.   *)
QoGetProperties(o) == GetProperties(o) /\ UNCHANGED listVars

Methods == \/ \E e \in Entries, n \in Nodes : Push(e, n)
           \/ PushFails \/ Pop \/ Peek \/ EmptyFails
Next == \/ Methods /\ Changes(Content) /\ UNCHANGED built
        \/ \E o \in Objects : QoGetProperties(o)

Spec == Init /\ [][Next]_vars

-----------------------------------------------------------------------------
TypeOK == /\ DOMAIN heap \subseteq Nodes
          /\ \A n \in DOMAIN heap : heap[n].element \in Entries /\ heap[n].next \in Nodes \cup {Null}
          /\ {elements, last} \subseteq DOMAIN heap \cup {Null}
          /\ size \in Nat /\ entries \subseteq Entries
          /\ out \in Entries \cup {Nothing, Error}

(* The three views of the list agree: size, which destroy and the workers  *)
(* count down by; last, where the next push links; and the chain itself.   *)
ChainAgrees ==
  /\ TypeOK
  /\ size = Len(Walk)
  /\ last = IF size = 0 THEN Null ELSE Walk[size]

(* Every node and every entry is on the chain: none is lost by a push to   *)
(* an emptied queue or by a pop, and pht_queue_destroy frees them all.     *)
NothingLost ==
  /\ DOMAIN heap = ToSet(Walk)
  /\ entries = {heap[n].element : n \in DOMAIN heap}

List == INSTANCE EntryList WITH content <- Content

(* The queue is first in, first out.                                       *)
Fifo == List!QueueSpec
=============================================================================
