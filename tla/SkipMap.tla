------------------------------- MODULE SkipMap -------------------------------
(***************************************************************************)
(* map/mod.rs: the skip list.  Its nodes are boxes that are never freed,   *)
(* its pointers are addresses whose lowest bit marks the node they leave   *)
(* as removed, and search unlinks the marked nodes it walks over.  Nothing *)
(* in the kernel runs two calls at once, so a call is one step and every   *)
(* compare_exchange finds what was loaded before it; what is left to go    *)
(* wrong is the order of the calls and the keys they are given.            *)
(* Level i of the code is level i + 1 here.                                *)
(***************************************************************************)
EXTENDS Naturals, Sequences, FiniteSets, TLC

CONSTANTS Keys,       \* the keys of the calls (K: Ord), numbers
          Values,     \* the values
          Default,    \* K::default(), the key of head and tail
          None,       \* Option::None
          MaxLevel,   \* MAX_LEVEL (32)
          MaxNodes    \* bound of the model on the nodes ever boxed

ASSUME /\ Keys \subseteq Nat /\ Default \in Nat /\ None \notin Values
       /\ MaxLevel \in Nat \ {0} /\ MaxNodes \in Nat

VARIABLES heap,     \* address -> SkipNode, for the nodes boxed so far
          result,   \* the last call and what it returned
          fault,    \* "none", or how the last call went wrong
          dict      \* history: key -> the value a map would hold for it

vars == <<heap, result, fault, dict>>

Null == 0
head == 1
tail == 2
Levels == 1 .. MaxLevel
Addresses == Null .. MaxNodes + 2

Pointers == [to : Addresses, mark : BOOLEAN]
Nodes == [key : Keys \cup {Default}, val : Values \cup {None},
          marker : BOOLEAN, deleted : Nat, toplevel : Levels,
          next : [Levels -> Pointers]]

Ptr(n) == [to |-> n, mark |-> FALSE]
is_marked(p) == p.mark
unset_mark(p) == [p EXCEPT !.mark = FALSE]
set_mark(p) == [p EXCEPT !.mark = TRUE]

\* SkipNode::new
SkipNode(key, val, toplevel) ==
    [key |-> key, val |-> val, marker |-> FALSE, deleted |-> 0,
     toplevel |-> toplevel, next |-> [i \in Levels |-> Ptr(Null)]]

\* get_rand_level: some level from 1 to max_level
get_rand_level(max_level) == 1 .. max_level

\* compare_exchange on next[i] of node n
CAS(h, n, i, current, new) ==
    IF h[n].next[i] = current
    THEN [ok |-> TRUE, heap |-> [h EXCEPT ![n].next[i] = new]]
    ELSE [ok |-> FALSE, heap |-> h]

-----------------------------------------------------------------------------
\* search.  A walk that loads from address 0 ends the kernel: its result
\* has right = Null.

\* the inner loop: past the nodes whose pointer at level i is marked
RECURSIVE unmarked(_, _, _)
unmarked(h, right, i) ==
    IF right = Null \/ ~is_marked(h[right].next[i]) THEN right
    ELSE unmarked(h, h[right].next[i].to, i)

\* mutant of ahead: a node with the key sought is walked past
RECURSIVE ahead_past(_, _, _, _, _)
ahead_past(h, key, left, left_next, i) ==
    LET right == unmarked(h, left_next.to, i) IN
    IF right = Null \/ h[right].marker \/ h[right].key > key
    THEN [left |-> left, left_next |-> left_next, right |-> right]
    ELSE ahead_past(h, key, right, h[right].next[i], i)

\* the outer loop: to the first node that is the tail or has a key >= key
RECURSIVE ahead(_, _, _, _, _)
ahead(h, key, left, left_next, i) ==
    LET right == unmarked(h, left_next.to, i) IN
    IF right = Null \/ h[right].marker \/ h[right].key >= key
    THEN [left |-> left, left_next |-> left_next, right |-> right]
    ELSE ahead(h, key, right, h[right].next[i], i)

\* the levels from i down: what is walked over is unlinked, and left and
\* right are recorded
RECURSIVE descend(_, _, _, _, _, _)
descend(h, key, left, i, left_list, right_list) ==
    IF i = 0
    THEN [heap |-> h, left_list |-> left_list, right_list |-> right_list,
          fault |-> "none"]
    ELSE LET at == ahead(h, key, left, h[left].next[i], i)
             linked == IF at.left_next # Ptr(at.right)
                       THEN CAS(h, at.left, i, at.left_next, Ptr(at.right))
                       ELSE [ok |-> TRUE, heap |-> h]
         IN  IF is_marked(h[left].next[i])
             THEN [heap |-> h, left_list |-> left_list,
                   right_list |-> right_list, fault |-> "spin"]
             ELSE IF at.right = Null
             THEN [heap |-> h, left_list |-> left_list,
                   right_list |-> right_list, fault |-> "null"]
             ELSE IF ~linked.ok
             THEN [heap |-> h, left_list |-> left_list,
                   right_list |-> right_list, fault |-> "spin"]
             ELSE descend(linked.heap, key, at.left, i - 1,
                          [left_list EXCEPT ![i] = at.left],
                          [right_list EXCEPT ![i] = at.right])

search(h, key) ==
    descend(h, key, head, MaxLevel,
            [i \in Levels |-> Null], [i \in Levels |-> Null])

\* mark_node_ptrs
mark_node_ptrs(h, node) ==
    [h EXCEPT ![node].next =
        [i \in Levels |-> IF i <= h[node].toplevel THEN set_mark(@[i])
                          ELSE @[i]]]

-----------------------------------------------------------------------------
\* insert

\* The loop of insert at level i.  new_node is pointed at succ and pred at
\* new_node; where pred no longer points at succ the search is made again,
\* and when that changes nothing the loop has no end.
RECURSIVE link(_, _, _, _, _)
link(h, new_node, key, i, found) ==
    LET pred == found.left_list[i]
        succ == found.right_list[i]
        new_next == h[new_node].next[i]
        pointed == IF new_next # Ptr(succ)
                   THEN CAS(h, new_node, i, unset_mark(new_next), Ptr(succ))
                   ELSE [ok |-> TRUE, heap |-> h]
        after == IF h[succ].key = key THEN unset_mark(h[succ].next[1])
                 ELSE Ptr(succ)
        placed == CAS(pointed.heap, pred, i, after, Ptr(new_node))
        again == search(placed.heap, key)
    IN  CASE ~pointed.ok -> [found EXCEPT !.heap = h]
          [] placed.ok   -> [found EXCEPT !.heap = placed.heap]
          [] again.fault # "none" -> again
          [] again = [found EXCEPT !.heap = placed.heap] ->
                [again EXCEPT !.fault = "spin"]
          [] OTHER -> link(again.heap, new_node, key, i, again)

\* the levels of the new node, from the lowest
RECURSIVE links(_, _, _, _, _)
links(h, new_node, key, i, found) ==
    IF i > h[new_node].toplevel THEN [found EXCEPT !.heap = h]
    ELSE LET done == link(h, new_node, key, i, found)
         IN  IF done.fault # "none" THEN done
             ELSE links(done.heap, new_node, key, i + 1, done)

\* mutant of placing: a key that is there keeps its node
placing_keeps(h, new_node, key) ==
    LET found == search(h, key)
    IN  IF found.heap[found.right_list[1]].key = key
        THEN [heap |-> found.heap, fault |-> "none", ret |-> TRUE]
        ELSE links(found.heap, new_node, key, 1, found) @@ [ret |-> TRUE]

\* The loop of insert: a node with the key that is not removed is marked
\* and the search made again; one that is removed makes insert return false.
RECURSIVE placing(_, _, _)
placing(h, new_node, key) ==
    LET found == search(h, key)
        succ == found.right_list[1]
    IN  CASE found.fault # "none" ->
                [heap |-> found.heap, fault |-> found.fault, ret |-> FALSE]
          [] found.heap[succ].key = key /\ found.heap[succ].deleted = 0 ->
                placing(mark_node_ptrs(found.heap, succ), new_node, key)
          [] found.heap[succ].key = key ->
                [heap |-> found.heap, fault |-> "none", ret |-> FALSE]
          [] OTHER ->
                links(found.heap, new_node, key, 1, found) @@ [ret |-> TRUE]

\* mutant of holds: the node found is taken for the key's
holds_any(h, node, key) == node # Null

\* what get and remove ask of succs[0]
holds(h, node, key) == node # Null /\ h[node].key = key

-----------------------------------------------------------------------------
Results == [op : {"new"}]
              \cup [op : {"insert", "remove"}, key : Keys, ret : BOOLEAN]
              \cup [op : {"get"}, key : Keys, ret : Values \cup {None}]

TypeOK ==
    /\ DOMAIN heap \subseteq Addresses \ {Null}
    /\ \A n \in DOMAIN heap : heap[n] \in Nodes
    /\ result \in Results
    /\ fault \in {"none", "null", "spin"}
    /\ dict \in [Keys -> Values \cup {None}]

\* SkipMap::new
Init ==
    /\ heap = [n \in {head, tail} |->
                 IF n = head
                 THEN [SkipNode(Default, None, MaxLevel) EXCEPT
                          !.next = [i \in Levels |-> Ptr(tail)]]
                 ELSE [SkipNode(Default, None, MaxLevel) EXCEPT
                          !.marker = TRUE]]
    /\ result = [op |-> "new"]
    /\ fault = "none"
    /\ dict = [k \in Keys |-> None]

\* How a call ends: with its result, or with the kernel stopped.
Ends(done, res) ==
    /\ heap' = done.heap
    /\ fault' = done.fault
    /\ result' = res

\* SkipMap::insert
Insert(key, val, toplevel) ==
    /\ fault = "none" /\ Cardinality(DOMAIN heap) < MaxNodes + 2
    /\ LET new_node == Cardinality(DOMAIN heap) + 1
           boxed == [n \in DOMAIN heap \cup {new_node} |->
                       IF n = new_node THEN SkipNode(key, val, toplevel)
                       ELSE heap[n]]
           done == placing(boxed, new_node, key)
       IN  Ends(done, [op |-> "insert", key |-> key, ret |-> done.ret])
    /\ dict' = [dict EXCEPT ![key] = val]

\* SkipMap::get
Get(key) ==
    /\ fault = "none"
    /\ LET found == search(heap, key)
           succ == found.right_list[1]
       IN  Ends(found, [op |-> "get", key |-> key,
                        ret |-> IF holds(found.heap, succ, key)
                                THEN found.heap[succ].val ELSE None])
    /\ UNCHANGED dict

\* SkipMap::remove
Remove(key) ==
    /\ fault = "none"
    /\ LET found == search(heap, key)
           succ == found.right_list[1]
           gone == [found.heap EXCEPT ![succ].deleted = @ + 1]
           swept == search(mark_node_ptrs(gone, succ), key)
       IN  CASE found.fault # "none" ->
                   Ends(found, [op |-> "remove", key |-> key, ret |-> FALSE])
             [] succ = Null \/ found.heap[succ].key # key
                    \/ found.heap[succ].deleted # 0 ->
                   Ends(found, [op |-> "remove", key |-> key, ret |-> FALSE])
             [] OTHER ->
                   Ends(swept, [op |-> "remove", key |-> key, ret |-> TRUE])
    /\ dict' = [dict EXCEPT ![key] = None]

Next ==
    \/ \E key \in Keys, val \in Values, toplevel \in get_rand_level(MaxLevel) :
          Insert(key, val, toplevel)
    \/ \E key \in Keys : Get(key)
    \/ \E key \in Keys : Remove(key)

Spec == Init /\ [][Next]_vars

-----------------------------------------------------------------------------
\* The nodes of level i, from the head to the tail, the two left out.
RECURSIVE chain(_, _)
chain(n, i) ==
    IF n = Null \/ heap[n].marker THEN <<>>
    ELSE <<n>> \o chain(heap[n].next[i].to, i)

level(i) == chain(heap[head].next[i].to, i)

\* The skip list is the map its calls have made: the nodes of the lowest
\* level hold, key for key, what insert put there last and remove has not
\* taken away since.  insert of a key that is there marks the old node and
\* links a new one; remove marks and search unlinks.
HoldsWhatWasPut ==
    fault = "none" =>
        \A key \in Keys :
            LET at == {j \in DOMAIN level(1) : heap[level(1)[j]].key = key}
            IN  IF dict[key] = None THEN at = {}
                ELSE \E j \in at : at = {j} /\ heap[level(1)[j]].val = dict[key]

\* Every level is in the order of the keys and is drawn from the level
\* below it, and none holds a marked node: what search relies on to find a
\* key by going down from the top level.
LevelsAreSorted ==
    fault = "none" =>
        \A i \in Levels :
            /\ \A j \in 1 .. Len(level(i)) - 1 :
                  heap[level(i)[j]].key < heap[level(i)[j + 1]].key
            /\ \A j \in DOMAIN level(i) :
                  /\ ~is_marked(heap[level(i)[j]].next[i])
                  /\ i > 1 => \E l \in DOMAIN level(i - 1) :
                                 level(i - 1)[l] = level(i)[j]

\* A call answers as a map does: get gives the value put last or None,
\* remove says whether the key was there, insert says true.
AnswersAsAMap ==
    [][fault' = "none" =>
          CASE result'.op = "get"    -> result'.ret = dict[result'.key]
            [] result'.op = "remove" -> result'.ret = (dict[result'.key] # None)
            [] result'.op = "insert" -> result'.ret
            [] OTHER -> TRUE]_vars

\* No call stops the kernel, whatever its key: the map takes any K.
NoCallStops == fault = "none"
=============================================================================
