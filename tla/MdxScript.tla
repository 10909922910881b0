------------------------------ MODULE MdxScript ------------------------------
(***************************************************************************)
(* A `.op.mdx` document from its text to its leaves: the ends of its       *)
(* imports and exports are found (module EsmScan), its nodes are lowered   *)
(* (module MdxLower), the program is evaluated and reduced (module         *)
(* ScriptTree).  Each import or export is scanned by itself, so one scan   *)
(* stands for all of a document.  JSX on lines of its own is an element    *)
(* (unit, scope, part) or an expression (list, text):                      *)
(*                                                                         *)
(*   unit   <Unit/>                                                        *)
(*   scope  <Context data={..}><Unit/></Context>                           *)
(*   part   <Layout>{null}<><Unit/></><Hidden><Unit/></Hidden></Layout>    *)
(*   list   {[<Unit/>, false, [<Unit/>]]}                                  *)
(*   text   {"text"}                                                       *)
(***************************************************************************)
EXTENDS MdxLower, EsmScan, ScriptTree

VARIABLE leaves \* what the run has to reconcile

vars == <<scan_vars, lower_vars, leaves>>

Element    == {"unit", "scope", "part"}
Expression == {"list", "text"}

ASSUME FlowsAreKnown == Flow \subseteq Element \cup Expression /\ ContextFlow = Flow \cap {"scope"}

\* The j-th unit of node i, and what node i evaluates to.
unit(i, j) == h_fn("Kind", <<i, j>>, <<>>)

value_of(i) ==
  CASE doc[i].flow = "unit"  -> unit(i, 1)
    [] doc[i].flow = "scope" -> h_fn("Context", [value |-> None, data |-> <<i>>], <<unit(i, 1)>>)
    [] doc[i].flow = "part"  ->
         h_fn("Layout", <<>>, <<Nothing,
                                h_fn("Fragment", <<>>, <<unit(i, 1)>>),
                                h_fn("Hidden", <<>>, <<unit(i, 2)>>)>>)
    [] doc[i].flow = "list"  -> Array(<<unit(i, 1), Nothing, Array(<<unit(i, 2)>>)>>)
    [] doc[i].flow = "text"  -> Other

-----------------------------------------------------------------------------
(* compile_section and compile_root, and what their output evaluates to.   *)

\* The heading and the prose of a section are one text.
merged(sect) ==
  (IF sect.heading_text = 0 THEN <<>> ELSE <<sect.heading_text>>) \o sect.prose_parts

RECURSIVE compile_section(_)
compile_section(sect) ==
  h_fn("Context", [value |-> merged(sect), data |-> None],
       [i \in DOMAIN sect.children |->
          IF sect.children[i].child = "section"
          THEN compile_section(sect.children[i].section)
          ELSE value_of(sect.children[i].node)])

\* A root without a text is an array.  There an expression with its braces is an
\* object, or does not even parse.
in_array(child) ==
  CASE child.child = "section" -> compile_section(child.section)
    [] child.child = "verbatim" ->
         IF doc[child.node].flow \in Expression THEN Other ELSE value_of(child.node)

compile_root(root) ==
  IF has_context(root) THEN compile_section(root)
  ELSE Array([i \in DOMAIN root.children |-> in_array(root.children[i])])

-----------------------------------------------------------------------------
Init ==
  /\ ScanInit /\ phase = "reading" /\ leaves = <<>>
  /\ doc = <<>> /\ pos = 1 /\ stack = <<Section(0, 0)>> /\ esm_statements = {}
  /\ closed = {}

scan ==
  /\ phase = "reading" /\ \E c \in Char, escaped \in BOOLEAN : read(c, escaped)
  /\ UNCHANGED <<lower_vars, leaves>>

\* A blank line or the end of the document: only at its end is a statement that
\* is not complete an error.
statement_end ==
  /\ phase = "reading"
  /\ phase' \in IF esm_statement_is_complete THEN {"read"} ELSE {"failed"}
  /\ restart /\ UNCHANGED <<doc, pos, stack, esm_statements, closed, leaves>>

\* The markdown parser returns the nodes of the document.
to_mdast ==
  /\ phase = "read" /\ phase' = "lowering" /\ doc' \in Documents
  /\ UNCHANGED <<scan_vars, pos, stack, esm_statements, closed, leaves>>

lower == LowerNext /\ UNCHANGED <<scan_vars, leaves>>

\* What binds_identifier takes for a binding may be the path of an import.
Context_is_bound ==
  \E i \in esm_statements :
    LET words == doc[i].words IN
    binds_identifier(words) /\ "from" \notin {words[j - 1] : j \in {j \in 2..Len(words) : words[j] = "Context"}}

\* The program is evaluated and reduced; an error ends the run.
collect_leaves ==
  /\ phase = "lowered"
  /\ LET found == reduce(compile_root(top), <<>>, <<>>)
     IN  IF throws(found) \/ (MentionsContext(top) /\ ~Context_is_bound)
         THEN phase' = "failed" /\ UNCHANGED leaves
         ELSE phase' = "collected" /\ leaves' = found
  /\ UNCHANGED <<scan_vars, doc, pos, stack, esm_statements, closed>>

Next == scan \/ statement_end \/ to_mdast \/ lower \/ collect_leaves

Spec == Init /\ [][Next]_vars

-----------------------------------------------------------------------------
(* Properties.                                                             *)

\* The headings that govern node i, 0 for the whole document, and their texts.
Around(i)   == {0} \cup {h \in Headings : Governs(h, i)}
Nearest(i)  == CHOOSE h \in Around(i) : \A g \in Around(i) : g <= h
Sorted(S)   == SetToSortSeq(S, <)
TextOf(h)   == Sorted((IF h = 0 THEN {} ELSE {h})
                      \cup {i \in DOMAIN doc : doc[i].kind = "prose" /\ Nearest(i) = h})
ContextOf(i) == SelectSeq([n \in DOMAIN Sorted(Around(i)) |-> TextOf(Sorted(Around(i))[n])],
                          LAMBDA text : text # <<>>)

UnitsOf(i) ==
  CASE doc[i].kind # "flow" -> <<>>
    [] doc[i].kind = "flow" ->
         [n \in 1..(CASE doc[i].flow = "list" -> 2 [] doc[i].flow = "text" -> 0 [] OTHER -> 1) |->
            [item         |-> <<i, n>>,
             context      |-> ContextOf(i),
             context_data |-> IF doc[i].flow = "scope" THEN <<<<i>>>> ELSE <<>>]]

\* A document that runs has exactly the units written in it, in its order, each
\* under the texts of the headings that govern it: every text once, the
\* outermost first, all the prose under a heading, also what comes after the
\* unit (lower.rs:4-7 and 594).
UnitsKeepTheirPlace ==
  phase = "collected" => leaves = FlattenSeq([i \in DOMAIN doc |-> UnitsOf(i)])
=============================================================================
