------------------------------ MODULE MdxLower ------------------------------
(***************************************************************************)
(* How a `.op.mdx` document becomes a script (optative-script-mdx,         *)
(* lower.rs): the headings nest the rest of the document into sections,    *)
(* with a stack of the sections that are open.  The markdown parser is     *)
(* external: a document is the sequence of top-level nodes it returns.  A  *)
(* text is the position of the node it is the text of.                     *)
(***************************************************************************)
EXTENDS Naturals, Sequences

CONSTANTS
  Depth,       \* heading ranks
  Flow,        \* what a JSX element or {expression} of its own line may be
  ContextFlow, \* those whose text has a "<Context"
  EsmWords,    \* what an import or export may say, word by word
  ProseWords,  \* how prose may begin, word by word
  MaxNodes     \* bound: nodes of a document

ASSUME DepthsAreRanks == Depth \subseteq Nat \ {0}
ASSUME ContextFlowsAreFlows == ContextFlow \subseteq Flow

\* An import or export; a heading; a flow node; prose; and headings or prose
\* with JSX amid the text.
Node ==
       [kind : {"esm"}, words : EsmWords]
  \cup [kind : {"heading"}, depth : Depth]
  \cup [kind : {"flow"}, flow : Flow]
  \cup [kind : {"prose"}, words : ProseWords]
  \cup [kind : {"rejected"}]

VARIABLES
  doc,            \* the document
  pos,            \* the node the loop is at
  stack,          \* the open sections, the root first
  esm_statements, \* the imports and exports
  phase,          \* "lowering", "lowered" or "failed"
  closed          \* history: the sections that have been closed

lower_vars == <<doc, pos, stack, esm_statements, phase, closed>>

\* 0 stands for no heading.
Section(depth, heading_text) ==
  [depth |-> depth, heading_text |-> heading_text, prose_parts |-> <<>>, children |-> <<>>]

Verbatim(i)      == [child |-> "verbatim", node |-> i]
SubSection(sect) == [child |-> "section", section |-> sect]

Documents == UNION {[1..n -> Node] : n \in 0..MaxNodes}

LowerInit ==
  /\ doc \in Documents
  /\ pos = 1 /\ phase = "lowering"
  /\ stack = <<Section(0, 0)>> /\ esm_statements = {} /\ closed = {}

-----------------------------------------------------------------------------
(* build_root_section.                                                     *)

top == stack[Len(stack)]

At(kind)   == phase = "lowering" /\ pos \in DOMAIN doc /\ doc[pos].kind = kind
AtEnd      == phase = "lowering" /\ pos > Len(doc)
Advance    == pos' = pos + 1 /\ UNCHANGED <<doc, phase, closed>>
OnTop(sect) == stack' = [stack EXCEPT ![Len(stack)] = sect]

esm ==
  /\ At("esm") /\ Advance
  /\ esm_statements' = esm_statements \cup {pos}
  /\ UNCHANGED stack

\* Mutant: a heading leaves a section of its own rank open.
closes_deeper(depth) == top.depth > depth

\* A heading closes the sections that are as deep as itself or deeper.
closes(depth) == top.depth >= depth

Closing == (At("heading") /\ closes(doc[pos].depth)) \/ AtEnd

\* Mutant: what is closed becomes a child of the root.
pop_to_root ==
  /\ Len(stack) > 1 /\ Closing
  /\ stack' = [SubSeq(stack, 1, Len(stack) - 1)
                 EXCEPT ![1].children = Append(@, SubSection(top))]
  /\ closed' = closed \cup {top} /\ UNCHANGED <<doc, pos, esm_statements, phase>>

\* A section that is closed becomes a child of the one it is in; all are closed
\* at the end.
pop ==
  /\ Len(stack) > 1 /\ Closing
  /\ stack' = [SubSeq(stack, 1, Len(stack) - 1)
                 EXCEPT ![Len(stack) - 1].children = Append(@, SubSection(top))]
  /\ closed' = closed \cup {top} /\ UNCHANGED <<doc, pos, esm_statements, phase>>

heading ==
  /\ At("heading") /\ ~ (Len(stack) > 1 /\ closes(doc[pos].depth))
  /\ stack' = Append(stack, Section(doc[pos].depth, pos))
  /\ Advance /\ UNCHANGED esm_statements

flow ==
  /\ At("flow") /\ Advance
  /\ OnTop([top EXCEPT !.children = Append(@, Verbatim(pos))])
  /\ UNCHANGED esm_statements

Keyword == {"const", "let", "var", "function", "async", "class", "interface", "type", "enum"}
Mark    == {"=", "(", "{", ":"}

\* A keyword, a name and one of the marks after it: prose never starts like that.
looks_like_forgotten_export(words) ==
  /\ Len(words) > 2
  /\ words[1] \in Keyword /\ words[2] \notin Mark /\ words[3] \in Mark

prose ==
  /\ At("prose") /\ ~looks_like_forgotten_export(doc[pos].words) /\ Advance
  /\ OnTop([top EXCEPT !.prose_parts = Append(@, pos)])
  /\ UNCHANGED esm_statements

rejected ==
  /\ \/ At("rejected")
     \/ At("prose") /\ looks_like_forgotten_export(doc[pos].words)
  /\ phase' = "failed"
  /\ UNCHANGED <<doc, pos, stack, esm_statements, closed>>

-----------------------------------------------------------------------------
(* lower_to_tsx, when the sections are built.                              *)

has_context(sect) == sect.heading_text # 0 \/ sect.prose_parts # <<>>

\* The word Context stands in the statement, and is not renamed away.  That it
\* may stand there for something else, as in a path, is not asked.
binds_identifier(words) ==
  \E i \in DOMAIN words :
    words[i] = "Context" /\ ~(i < Len(words) /\ words[i + 1] = "as")

\* Does the program name Context?  Sections inside the root have a heading.
MentionsContext(root) ==
  \/ has_context(root)
  \/ \E i \in DOMAIN root.children :
       LET child == root.children[i]
       IN  child.child = "section" \/ doc[child.node].flow \in ContextFlow

\* A program that names Context and does not import it is an error.
lower_to_tsx ==
  /\ AtEnd /\ Len(stack) = 1
  /\ phase' = IF MentionsContext(top)
                 /\ \A i \in esm_statements : ~ binds_identifier(doc[i].words)
              THEN "failed" ELSE "lowered"
  /\ UNCHANGED <<doc, pos, stack, esm_statements, closed>>

LowerNext == esm \/ pop \/ heading \/ flow \/ prose \/ rejected \/ lower_to_tsx

LowerSpec == LowerInit /\ [][LowerNext]_lower_vars

-----------------------------------------------------------------------------
(* Properties.                                                             *)

\* Children are sections themselves, nested to any depth: their type is left open.
IsSection(s) ==
  s \in [depth : Depth \cup {0}, heading_text : Nat, prose_parts : Seq(Nat),
         children : {s.children}]

IsSequence(f) == f \in Seq({f[i] : i \in DOMAIN f})

\* The values the variables take.
TypeOK ==
  /\ doc \in Seq(Node) /\ pos \in 1..(Len(doc) + 1)
  /\ phase \in {"lowering", "lowered", "failed"}
  /\ esm_statements \subseteq DOMAIN doc
  /\ Len(stack) > 0 /\ IsSequence(stack)
  /\ \A sect \in closed \cup {stack[i] : i \in DOMAIN stack} :
       IsSection(sect) /\ IsSequence(sect.children)

Headings == {i \in DOMAIN doc : doc[i].kind = "heading"}

\* A heading governs what follows it up to the next heading of its rank or a
\* smaller one.
Governs(h, i) ==
  /\ h \in Headings /\ h <= i
  /\ \A j \in Headings : h < j /\ j <= i => doc[j].depth > doc[h].depth

\* The open sections are always those of the headings that govern what has been
\* read, outermost first; closing them for the next heading takes only those it
\* ends (build_root_section, lower.rs:227-251).
OnlyGoverning == \A i \in 2..Len(stack) : Governs(stack[i].heading_text, pos - 1)

AllGoverning ==
  \A h \in Headings :
    Governs(h, pos - 1) =>
      \/ \E i \in 2..Len(stack) : stack[i].heading_text = h
      \/ pos > Len(doc)
      \/ doc[pos].kind = "heading" /\ doc[pos].depth <= doc[h].depth

InOrder ==
  \A i, j \in 2..Len(stack) : i < j => stack[i].heading_text < stack[j].heading_text

StackIsTheGoverningHeadings == OnlyGoverning /\ AllGoverning /\ InOrder

\* The heading a node is directly under, 0 if it is under none.
Under(h, j) ==
  /\ h = 0 \/ (Governs(h, j) /\ h < j)
  /\ \A g \in Headings : g < j /\ Governs(g, j) => g <= h

Enumerates(s, S) ==
  /\ {s[i] : i \in DOMAIN s} = S
  /\ \A i, j \in DOMAIN s : i < j => s[i] < s[j]

Place(child) == IF child.child = "verbatim" THEN child.node ELSE child.section.heading_text
Places(sect) == [i \in DOMAIN sect.children |-> Place(sect.children[i])]

SubSections(sect) ==
  {sect.children[i].section : i \in {n \in DOMAIN sect.children :
                                       sect.children[n].child = "section"}}

\* The nodes of some kinds that are directly under the heading of a section.
Own(sect, kinds, nodes) ==
  {j \in nodes : doc[j].kind \in kinds /\ Under(sect.heading_text, j)}

Holds(sect, nodes) ==
  /\ Enumerates(sect.prose_parts, Own(sect, {"prose"}, nodes))
  /\ Enumerates(Places(sect), Own(sect, {"flow", "heading"}, nodes))
  /\ \A i \in DOMAIN sect.children :
       LET kind == doc[Places(sect)[i]].kind
       IN  kind = IF sect.children[i].child = "section" THEN "heading" ELSE "flow"

\* The nodes read, but for the heading of the next open section.
SoFar(i) ==
  (1..(pos - 1)) \ (IF i < Len(stack) THEN {stack[i + 1].heading_text} ELSE {})

\* Nothing is lost, repeated or put elsewhere by nesting (lower.rs:4-7): the open
\* sections are those of the governing headings, and each holds, in the order of
\* the document, the prose, the flow nodes and the closed sections that are
\* directly under its heading, of those that have been read; one that is closed
\* holds those of the whole document.  So at the end does the root, and so do the
\* sections in it, to any depth.
SectionsHoldTheirOwn ==
  /\ StackIsTheGoverningHeadings
  /\ \A i \in DOMAIN stack : Holds(stack[i], SoFar(i)) /\ SubSections(stack[i]) \subseteq closed
  /\ \A sect \in closed : Holds(sect, DOMAIN doc) /\ SubSections(sect) \subseteq closed

\* The inductive invariant: a section has the rank of its heading, and an open
\* one is directly under the one before it.
RankOfHeading ==
  /\ stack[1].depth = 0 /\ stack[1].heading_text = 0
  /\ \A i \in 2..Len(stack) :
       stack[i].heading_text \in Headings /\ stack[i].depth = doc[stack[i].heading_text].depth

OpenAreNested == \A i \in 2..Len(stack) : Under(stack[i - 1].heading_text, stack[i].heading_text)

IInv == TypeOK /\ RankOfHeading /\ OpenAreNested /\ SectionsHoldTheirOwn
=============================================================================
