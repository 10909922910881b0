----------------------------- MODULE ScriptTree -----------------------------
(***************************************************************************)
(* The values a JSX script is made of and the leaves it comes to:          *)
(* `h` (optative-script, runtime.rs) builds elements and runs components   *)
(* at once, `reduce` (engine.rs) walks what the script returns and         *)
(* collects the units, each with the context of the <Context> elements     *)
(* around it.  Operators only, and recursive ones.                         *)
(***************************************************************************)
EXTENDS SequencesExt

CONSTANT None \* a prop that is not given

\* JavaScript values: null, undefined and false; arrays; elements; the rest.
Nothing      == [js |-> "nothing"]
Array(items) == [js |-> "array", items |-> items]
Other        == [js |-> "other"]

RECURSIVE flatten_child(_)
flatten_child(val) ==
  CASE val.js = "nothing" -> <<>>
    [] val.js = "array" ->
         FlattenSeq([i \in DOMAIN val.items |-> flatten_child(val.items[i])])
    [] OTHER -> <<val>>

flatten_children(values) == flatten_child(Array(values))

\* A component is called with its children; those of a script are the one that
\* returns them and the one that returns nothing.
Component == {"Layout", "Hidden"}
call(component, kids) == IF component = "Layout" THEN Array(kids) ELSE Nothing

\* <type ...props>children</type>
h_fn(type, props, children) ==
  LET kids == flatten_children(children)
  IN  CASE type \in Component  -> call(type, kids)
        [] type = "Fragment"   -> Array(kids)
        [] OTHER -> [js |-> "element", type |-> type, props |-> props, children |-> kids]

\* A leaf in the place of the error reduce throws at what it does not know.
Unknown == [item |-> None, context |-> <<>>, context_data |-> <<>>]

pushed(stack, prop) == IF prop = None THEN stack ELSE Append(stack, prop)

\* <Context value=... data=...> adds what it gives.
accumulate_context(props, context, context_data) ==
  [context      |-> pushed(context, props.value),
   context_data |-> pushed(context_data, props.data)]

RECURSIVE reduce(_, _, _)
reduce(node, context, context_data) ==
  LET each(nodes, c) ==
        FlattenSeq([i \in DOMAIN nodes |-> reduce(nodes[i], c.context, c.context_data)])
      here == [context |-> context, context_data |-> context_data]
  IN  CASE node.js = "nothing" -> <<>>
        [] node.js = "array"   -> each(node.items, here)
        [] node.js = "element" /\ node.type = "Context" ->
             each(node.children, accumulate_context(node.props, context, context_data))
        [] node.js = "element" /\ node.type = "Kind" ->
             << [item |-> node.props, context |-> context, context_data |-> context_data] >>
        [] OTHER -> <<Unknown>>

throws(leaves) == \E i \in DOMAIN leaves : leaves[i] = Unknown
=============================================================================
