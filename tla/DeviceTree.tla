----------------------------- MODULE DeviceTree ----------------------------
(***************************************************************************)
(* The device tree of kern/device_tree.c: parse_tree builds the tree of    *)
(* nodes from the flattened blob the firmware left, token by token with a  *)
(* stack of open nodes; find_by_type walks it breadth first with a queue   *)
(* of fixed length; get_reg_item decodes a node's registers with the cell  *)
(* counts of its ancestors.                                                *)
(*                                                                         *)
(* A blob is a sequence of tokens: "header" first, when its magic number   *)
(* is right; then [t |-> "begin", base, chars] for a node named base or    *)
(* base@unit (chars is the length of the whole name),                      *)
(* [t |-> "prop", name, val], "end", "nop", "pad" (a zero word: parse_tree *)
(* leaves the terminator of a name whose length is a multiple of four in   *)
(* the stream, and reads it as a token), "stop" (FDT_END) and "bad".  The  *)
(* value of a property is a sequence of 32-bit cells, or a set of strings. *)
(* A node is its number in the order of creation.                          *)
(***************************************************************************)
EXTENDS Integers, Sequences, FiniteSets, SequencesExt, FiniteSetsExt

CONSTANTS
    Blobs,               \* the blobs a firmware may leave
    MAX_STACK_DEPTH,     \* open nodes: 64
    ITER_MAX_QUEUE_LEN,  \* the search queue: 64
    NAME_BUFFER_LEN,     \* parse_tree's buffer for a name: 32
    WORD                 \* 2^32, scaled

VARIABLES
    blob,          \* the blob, chosen once
    pos,           \* parse_tree: the next token
    node,          \* the nodes made: [base, parent, kids, props], newest first
    node_stack,    \* the open nodes, outermost first
    below,         \* node_stack_top has wrapped: how far below 0 it would be
    parsed,        \* parse_tree has returned
    smashed        \* parse_tree wrote past name_buffer, or into a node that
                   \* it found outside node_stack

treeVars == <<blob, pos, node, node_stack, below, parsed, smashed>>

NoNode == 0

TreeInit ==
    /\ blob \in Blobs
    /\ pos = 1
    /\ node = <<>>
    /\ node_stack = <<>> /\ below = 0
    /\ parsed = FALSE
    /\ smashed = FALSE

----------------------------------------------------------------------------
(* parse_tree, one step per token.  The first node is the root. *)

create_device_node(base) ==
    [base |-> base, parent |-> NoNode, kids |-> <<>>, props |-> <<>>]

\* Children and properties are inserted at the head of their lists.
device_node_insert_child(ns, parent, child) ==
    [ns EXCEPT ![child].parent = parent,
               ![parent].kids = <<child>> \o @]

device_node_insert_propertiy(ns, n, name, val) ==
    [ns EXCEPT ![n].props = << [name |-> name, val |-> val] >> \o @]

finish == parsed' = TRUE /\ UNCHANGED <<pos, node, node_stack, below>>

\* A bug: a node stays open after the first of its children is closed.
Parent_Root == IF node_stack = <<>> THEN NoNode ELSE Head(node_stack)

Parent == IF node_stack = <<>> THEN NoNode ELSE Last(node_stack)

\* The name is copied first.  A top that has wrapped is above every depth.
BEGIN_NODE(tok) ==
    /\ smashed' = (smashed \/ tok.chars + 1 > NAME_BUFFER_LEN)
    /\ IF below > 0 \/ Len(node_stack) >= MAX_STACK_DEPTH
         THEN finish
         ELSE LET new == Len(node) + 1
                  made == Append(node, create_device_node(tok.base))
              IN  /\ node' = IF Parent = NoNode THEN made
                             ELSE device_node_insert_child(made, Parent, new)
                  /\ node_stack' = Append(node_stack, new)
                  /\ pos' = pos + 1
                  /\ UNCHANGED <<below, parsed>>

\* node_stack_top, an unsigned number, is not compared with 0.
END_NODE ==
    /\ IF node_stack = <<>>
         THEN below' = below + 1 /\ UNCHANGED node_stack
         ELSE node_stack' = Front(node_stack) /\ UNCHANGED below
    /\ pos' = pos + 1
    /\ UNCHANGED <<node, parsed, smashed>>

\* With a top that has wrapped the property goes to whatever node the memory
\* before node_stack points at.
PROP(tok) ==
    IF node_stack = <<>> /\ below = 0
      THEN finish /\ UNCHANGED smashed
      ELSE /\ IF below > 0 THEN smashed' = TRUE /\ UNCHANGED node
              ELSE /\ node' = device_node_insert_propertiy(node, Last(node_stack),
                                                           tok.name, tok.val)
                   /\ UNCHANGED smashed
           /\ pos' = pos + 1
           /\ UNCHANGED <<node_stack, below, parsed>>

parse_tree ==
    /\ ~parsed
    /\ UNCHANGED blob
    /\ LET tok == blob[pos]
           magic == blob[1].t = "header"
       IN
       \/ magic /\ tok.t = "begin" /\ BEGIN_NODE(tok)
       \/ magic /\ tok.t = "end" /\ END_NODE
       \/ magic /\ tok.t = "prop" /\ PROP(tok)
       \/ /\ magic /\ tok.t \in {"header", "nop", "pad"} /\ pos' = pos + 1
          /\ UNCHANGED <<node, node_stack, below, parsed, smashed>>
       \/ /\ ~magic \/ tok.t \in {"stop", "bad"}
          /\ finish /\ UNCHANGED smashed

----------------------------------------------------------------------------
(* Searching.  st is the state of one search: the queue array q, its       *)
(* fields front, rear and n (queue_count), the nodes found, whether it     *)
(* ended early and whether it read behind the array.                       *)

Push(st, kids) ==
    LET room == ITER_MAX_QUEUE_LEN - st.n
        in == SubSeq(kids, 1, IF Len(kids) < room THEN Len(kids) ELSE room)
        at(i) == (st.rear + i) % ITER_MAX_QUEUE_LEN
    IN  [st EXCEPT
            !.q = [j \in 0 .. ITER_MAX_QUEUE_LEN - 1 |->
                      IF \E i \in DOMAIN in : at(i) = j
                        THEN in[CHOOSE i \in DOMAIN in : at(i) = j] ELSE st.q[j]],
            !.rear = at(Len(in)),
            !.n = st.n + Len(in),
            !.stop = Len(in) < Len(kids)]

RECURSIVE Search(_, _, _)
Search(st, Match(_), max) ==
    IF st.n = 0 \/ st.stop THEN st
    ELSE IF st.front >= ITER_MAX_QUEUE_LEN        \* front is never wrapped
      THEN [st EXCEPT !.stop = TRUE, !.overrun = TRUE]
      ELSE LET cur == st.q[st.front]
               popped == [st EXCEPT !.front = @ + 1, !.n = @ - 1]
           IN  IF ~Match(cur) THEN Search(Push(popped, node[cur].kids), Match, max)
               ELSE IF Len(st.out) >= max THEN [popped EXCEPT !.stop = TRUE]
               ELSE Search(Push([popped EXCEPT !.out = Append(@, cur)],
                                node[cur].kids), Match, max)

FromRoot ==
    [q |-> [j \in 0 .. ITER_MAX_QUEUE_LEN - 1 |-> IF j = 0 THEN 1 ELSE NoNode],
     front |-> 0, rear |-> 0, n |-> IF node = <<>> THEN 0 ELSE 1,
     out |-> <<>>, stop |-> FALSE, overrun |-> FALSE]

\* is_type_equal: the name is the type, or the type followed by "@unit".
is_type_equal(n, type) == node[n].base = type

search_by_type(type, max) ==
    Search(FromRoot, LAMBDA n : is_type_equal(n, type), max)

find_by_type(type, max) == search_by_type(type, max).out

\* The first property of the list with the name: the last one in the blob.
get_property(n, name) ==
    LET hits == {i \in DOMAIN node[n].props : node[n].props[i].name = name}
    IN  IF hits = {} THEN {} ELSE {node[n].props[Min(hits)].val}

has(n, name) == get_property(n, name) # {}
value(n, name) == CHOOSE v \in get_property(n, name) : TRUE
contains_string(strings, target) == target \in strings

\* find_by_handle_id reads the handle from the property record instead of
\* its value: from the low half of the address of its name, a heap address.
HandleRead(n) == << "address of", n >>
find_by_handle_id(h) ==
    Search(FromRoot,
           LAMBDA n : has(n, "phandle") /\ HandleRead(n) = <<"handle", h>>, 1).out

----------------------------------------------------------------------------
(* Registers *)

RECURSIVE Ancestors(_)
Ancestors(n) == IF node[n].parent = NoNode THEN <<>>
                ELSE <<node[n].parent>> \o Ancestors(node[n].parent)

\* get_address_cells_count, get_size_cells_count: the loop does not stop at
\* the first ancestor that has the property, so the outermost one counts.
\* 0 stands for the panic of the root and of a node without one.
cells_count(n, name) ==
    LET with == SelectSeq(Ancestors(n), LAMBDA a : has(a, name))
    IN  IF with = <<>> THEN 0 ELSE value(Last(with), name)[1]

get_address_cells_count(n) == cells_count(n, "#address-cells")
get_size_cells_count(n) == cells_count(n, "#size-cells")

Bytes(cells) == 4 * Len(cells)

\* The number of registers: bytes divided by cells.
get_reg_list_len(n) ==
    LET per == get_address_cells_count(n) + get_size_cells_count(n) IN
    IF ~has(n, "reg") THEN 0
    ELSE IF Bytes(value(n, "reg")) % per # 0 THEN 0
    ELSE Bytes(value(n, "reg")) \div per

\* A bug: the cells are taken least significant first.
Decode_LowFirst(cells, i, count) ==
    IF count = 1 THEN cells[i + 1]
    ELSE IF count = 2 THEN cells[i + 2] * WORD + cells[i + 1]
    ELSE 0

\* One or two cells, most significant first; any other count leaves the
\* variable alone and the pointer where it is.
Decode(cells, i, count) ==
    IF count = 1 THEN cells[i + 1]
    ELSE IF count = 2 THEN cells[i + 1] * WORD + cells[i + 2]
    ELSE 0

\* [ret, address, size], from variables that were zero.  The item at idx is
\* looked for idx * (cells) BYTES into the value.
get_reg_item(n, idx) ==
    LET ac == get_address_cells_count(n)
        sc == get_size_cells_count(n)
        reg == value(n, "reg")
        i == (idx * (ac + sc)) \div 4
        step == IF ac \in {1, 2} THEN ac ELSE 0
        failed == [ret |-> 1, address |-> 0, size |-> 0]
    IN  IF ~has(n, "reg") THEN failed
        ELSE IF Bytes(reg) % (ac + sc) # 0 \/ idx * (ac + sc) >= Bytes(reg) THEN failed
        ELSE [ret |-> 0, address |-> Decode(reg, i, ac),
              size |-> Decode(reg, i + step, sc)]

\* free_device_tree: the order in which it frees the nodes.
RECURSIVE FreeOrder(_)
FreeOrder(n) == FlattenSeq([k \in DOMAIN node[n].kids |-> FreeOrder(node[n].kids[k])])
                  \o <<n>>
free_device_tree == IF node = <<>> THEN <<>> ELSE FreeOrder(1)

----------------------------------------------------------------------------
(* Properties *)

\* The reference: nesting read off the blob, without a stack.
Count(t, k) == Cardinality({i \in 1 .. k : blob[i].t = t})
Depth(k) == Count("begin", k) - Count("end", k)       \* open nodes after token k
Encloser(k) ==      \* the begin token of the innermost node open before token k
    LET open == {j \in 1 .. k - 1 : /\ blob[j].t = "begin"
                                    /\ \A i \in j .. k - 1 : Depth(i) >= Depth(j)}
    IN  IF open = {} THEN 0 ELSE Max(open)
NodeOf(k) == IF k = 0 THEN NoNode ELSE Count("begin", k)

\* At every step of the parse the tree is the nesting of the tokens read so
\* far: every node has the parent that encloses its token and is among that
\* parent's children once, and every property hangs, once, in the node that
\* encloses it.
TreeMatchesBlob ==
    /\ \A k \in 1 .. pos - 1 :
          /\ blob[k].t = "begin" =>
                LET n == NodeOf(k) IN
                /\ node[n].base = blob[k].base
                /\ node[n].parent = NodeOf(Encloser(k))
          /\ blob[k].t = "prop" =>
                [name |-> blob[k].name, val |-> blob[k].val]
                    \in ToSet(node[NodeOf(Encloser(k))].props)
    /\ \A n \in DOMAIN node :
          /\ Len(node[n].props) =
                Cardinality({k \in 1 .. pos - 1 : blob[k].t = "prop"
                                                    /\ NodeOf(Encloser(k)) = n})
          /\ ToSet(node[n].kids) = {m \in DOMAIN node : node[m].parent = n}
          /\ IsInjective(node[n].kids)

\* A search finds the nodes of the type, each once, as many as there are or
\* as the caller has room for, and stays inside its queue.
SearchComplete ==
    parsed => \A n \in DOMAIN node, max \in {1, Len(node)} :
        LET type == node[n].base
            all == {m \in DOMAIN node : node[m].base = type}
            out == find_by_type(type, max)
        IN  /\ ToSet(out) \subseteq all
            /\ IsInjective(out)
            /\ Len(out) = Min({max, Cardinality(all)})
            /\ ~search_by_type(type, max).overrun

\* The README says of find_by_handle_id that it returns the node with the
\* handle.
HandleFound ==
    parsed => \A n \in DOMAIN node : has(n, "phandle") =>
        find_by_handle_id(value(n, "phandle")[1]) # <<>>

\* The README says of get_reg_list_len that it is the number of (addr, len)
\* pairs.
RegCountRight ==
    parsed => \A n \in DOMAIN node : (has(n, "reg") /\ Ancestors(n) # <<>>) =>
        get_reg_list_len(n) =
            Len(value(n, "reg"))
                \div (get_address_cells_count(n) + get_size_cells_count(n))

\* Names fit the buffer they are copied to, and properties go to nodes.
NoSmash == ~smashed

\* free_device_tree frees every node once, a node after its children.
FreedOnce ==
    parsed =>
        /\ ToSet(free_device_tree) = DOMAIN node
        /\ IsInjective(free_device_tree)
        /\ \A i, j \in DOMAIN free_device_tree :
              node[free_device_tree[i]].parent = free_device_tree[j] => i < j
============================================================================
