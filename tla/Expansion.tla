----------------------------- MODULE Expansion ------------------------------
(***************************************************************************)
(* internal/expansion/expand.go: references $(name) to variables in the    *)
(* value of an environment variable.  A text is a sequence of characters,  *)
(* an environment a function from names to values, both texts.             *)
(***************************************************************************)
EXTENDS Integers, SequencesExt

operator == "$"
referenceOpener == "("
referenceCloser == ")"

syntaxWrap(input) == <<operator, referenceOpener>> \o input \o <<referenceCloser>>

(* MappingFuncFor with two contexts, the first of which comes first. *)
Mapping(first, second, input) == CASE input \in DOMAIN first -> first[input]
                                   [] input \in DOMAIN second \ DOMAIN first -> second[input]
                                   [] OTHER -> syntaxWrap(input)

(* What tryReadVariableName returns: the text read, whether it is a name, and *)
(* how many characters it takes up.                                           *)
Result(read, isVar, advance) == [read |-> read, isVar |-> isVar, advance |-> advance]

(* Mutant: the escaped operator is read, and not skipped. *)
tryReadWithoutAdvance(input) ==
    LET closers == {i \in DOMAIN input : input[i] = referenceCloser}
    IN  CASE input[1] = operator -> Result(<<operator>>, FALSE, 0)
          [] input[1] = referenceOpener /\ closers # {} ->
                 Result(SubSeq(input, 2, Min(closers) - 1), TRUE, Min(closers))
          [] OTHER -> Result(<<operator, input[1]>>, FALSE, 1)

(* Mutant: a reference ends at the last closer. *)
tryReadToLastCloser(input) ==
    LET closers == {i \in DOMAIN input : input[i] = referenceCloser}
    IN  CASE input[1] = operator -> Result(<<operator>>, FALSE, 1)
          [] input[1] = referenceOpener /\ closers # {} ->
                 Result(SubSeq(input, 2, Max(closers) - 1), TRUE, Max(closers))
          [] OTHER -> Result(<<operator, input[1]>>, FALSE, 1)

tryReadVariableName(input) ==
    LET closers == {i \in DOMAIN input : input[i] = referenceCloser}
    IN  CASE input[1] = operator -> Result(<<operator>>, FALSE, 1)
          [] input[1] = referenceOpener /\ closers # {} ->
                 Result(SubSeq(input, 2, Min(closers) - 1), TRUE, Min(closers))
          [] OTHER -> Result(<<operator, input[1]>>, FALSE, 1)

(* The cursor is at an operator with something behind it: what it reads there *)
(* is replaced.  Any other character is copied.                               *)
Expand(input, first, second) ==
    LET from[cursor \in 1..(Len(input) + 1)] ==
          IF cursor > Len(input) THEN <<>>
          ELSE IF input[cursor] = operator /\ cursor < Len(input)
               THEN LET r == tryReadVariableName(SubSeq(input, cursor + 1, Len(input)))
                    IN  (IF r.isVar THEN Mapping(first, second, r.read) ELSE r.read)
                          \o from[cursor + r.advance + 1]
               ELSE <<input[cursor]>> \o from[cursor + 1]
    IN  from[1]
=============================================================================
