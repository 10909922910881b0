------------------------------- MODULE EsmScan -------------------------------
(***************************************************************************)
(* Where an import or export of a `.op.mdx` document ends                  *)
(* (optative-script-mdx, lower.rs: esm_statement_is_complete).  At a blank *)
(* line, or at its end, the document's text so far is scanned: if the      *)
(* statement is complete it ends there, and what follows is markdown.      *)
(*                                                                         *)
(* The scanner reads characters with one of lookahead; what it reads at    *)
(* once is one character here.  Beside it goes the list of what is open,   *)
(* in the order it was opened, as JavaScript nests it (regular expressions *)
(* and the text of JSX elements aside, which the scanner does not know).   *)
(***************************************************************************)
EXTENDS SequencesExt

CONSTANT MaxOpen \* bound: how deep a statement nests

\* Quotes have their names in ScanMode.
Closer == [c \in {"(", "[", "{", "${", "SingleQuote", "DoubleQuote", "Template", "//", "/*"} |->
             CASE c = "(" -> ")" [] c = "[" -> "]" [] c \in {"{", "${"} -> "}"
               [] c = "//" -> "\n" [] c = "/*" -> "*/" [] OTHER -> c]

Bracket == {"(", "[", "{"}
Quote   == {"SingleQuote", "DoubleQuote", "Template"}
Comment == {"//", "/*"}
Char    == DOMAIN Closer \cup {Closer[c] : c \in DOMAIN Closer}

VARIABLES
  mode,    \* ScanMode: code with the brackets open in it, or a quote
  resume,  \* the modes around it
  comment, \* the comment being skipped, "none" if none
  open     \* history: what is open

scan_vars == <<mode, resume, comment, open>>

Code(brackets) == [in |-> "Code", brackets |-> brackets]
Quoted(q)      == [in |-> q, brackets |-> <<>>]

ScanInit == mode = Code(<<>>) /\ resume = <<>> /\ comment = "none" /\ open = <<>>

\* Mutant: the brackets around a string are forgotten.
brackets_push_mode_fresh(next) == mode' = next /\ resume' = Append(resume, Code(<<>>))

brackets_push_mode(next) == mode' = next /\ resume' = Append(resume, mode)

pop_mode ==
  IF resume = <<>> THEN mode' = Code(<<>>) /\ UNCHANGED resume
  ELSE mode' = Last(resume) /\ resume' = Front(resume)

\* A closing bracket that does not fit is ignored; "${" is a brace here.
in_code(c) ==
  LET fits    == mode.brackets # <<>> /\ c = Closer[Last(mode.brackets)]
      resumes == c = "}" /\ mode.brackets = <<>> /\ resume # <<>>
  IN
  /\ mode.in = "Code" /\ comment = "none"
  /\ comment' = IF c \in Comment THEN c ELSE "none"
  /\ CASE c \in Bracket -> mode' = Code(Append(mode.brackets, c)) /\ UNCHANGED resume
       [] c = "${"      -> mode' = Code(Append(mode.brackets, "{")) /\ UNCHANGED resume
       [] c \in Quote   -> brackets_push_mode(Quoted(c))
       [] fits          -> mode' = Code(Front(mode.brackets)) /\ UNCHANGED resume
       [] resumes       -> pop_mode
       [] OTHER         -> UNCHANGED <<mode, resume>>

in_comment(c) ==
  /\ comment # "none" /\ comment' = IF c = Closer[comment] THEN "none" ELSE comment
  /\ UNCHANGED <<mode, resume>>

\* A backslash takes what follows it along.
in_text(c, escaped) ==
  /\ mode.in \in Quote /\ UNCHANGED comment
  /\ CASE ~escaped /\ c = mode.in -> pop_mode
       [] ~escaped /\ c = "${" /\ mode.in = "Template" -> brackets_push_mode(Code(<<>>))
       [] OTHER -> UNCHANGED <<mode, resume>>

\* What is open when c has been read, too.
OpenAfter(c, escaped) ==
  LET inner == IF open = <<>> THEN "{" ELSE Last(open)
      text  == inner \in Quote
      code  == inner \in Bracket \cup {"${"}
  IN  IF open # <<>> /\ c = Closer[inner] /\ ~(text /\ escaped) THEN Front(open)
      ELSE IF code /\ c = "${" THEN Append(open, "{")
      ELSE IF code /\ c \in DOMAIN Closer THEN Append(open, c)
      ELSE IF inner = "Template" /\ c = "${" /\ ~escaped THEN Append(open, c)
      ELSE open

\* The scanner reads c, after a backslash if it is escaped; what has no meaning
\* where it stands is passed over.
read(c, escaped) ==
  /\ open' = OpenAfter(c, escaped) /\ Len(open') <= MaxOpen
  /\ in_code(c) \/ in_comment(c) \/ in_text(c, escaped)

\* Of the mode only: the modes around it are not asked, nor is a comment.
esm_statement_is_complete == mode.in = "Code" /\ mode.brackets = <<>>

\* The text of another statement.
restart == mode' = Code(<<>>) /\ resume' = <<>> /\ comment' = "none" /\ open' = <<>>

ScanNext == restart \/ \E c \in Char, escaped \in BOOLEAN : read(c, escaped)

ScanSpec == ScanInit /\ [][ScanNext]_scan_vars

-----------------------------------------------------------------------------
\* A statement in which all is closed, comments aside, ends at the next blank
\* line; and a blank line that ends one cuts no string, no template text and no
\* bracket in two, however they nest.  What is open around an open `${` is left
\* out: lower.rs:347-349 has such a statement go on, the code ends it.
EndsWhatIsClosed ==
  /\ (\A i \in DOMAIN open : open[i] \in Comment) => esm_statement_is_complete
  /\ esm_statement_is_complete =>
       \A i \in DOMAIN open :
         (\A j \in i..Len(open) : open[j] # "${") => open[i] \in Comment
=============================================================================
