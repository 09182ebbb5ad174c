----------------------------- MODULE ConfigText -----------------------------
(***************************************************************************)
(* The text of haproxy.cfg, as config.rs of haproxy-manager edits it.      *)
(*                                                                         *)
(* A text is its lines as split at every LF, so the last one is blank if   *)
(* and only if the text ends with LF; joining lines with LF is then the    *)
(* identity.  A line is what the code tells apart: a section header (of a  *)
(* service's backend, or of another section), an acl or use_backend line   *)
(* of a service, the default_backend line, any other indented line (one    *)
(* stands for all in a row), or a blank one.                               *)
(***************************************************************************)
EXTENDS Integers, Sequences, SequencesExt

CONSTANTS
  Services,     \* service names
  Invalid,      \* the services whose name or domain HAProxy cannot parse
  Cuts,         \* bound: after how many lines a failing write may stop
  None          \* the lines that belong to no service

ASSUME TextAssumption ==
  Invalid \subseteq Services /\ None \notin Services /\ Cuts \subseteq Nat

Line == [kind : {"header", "acl", "use", "default", "other", "blank"},
         svc : Services \cup {None}]
L(k, s) == [kind |-> k, svc |-> s]
Blank == L("blank", None)

\* The image's haproxy.cfg, cut down to the sections the edits look at.
BaseText == << L("header", None), L("default", None), Blank,
               L("header", None), L("other", None), Blank >>

\* str::lines, which does not count what follows the last LF if it is empty
Lines(text) == IF Last(text) = Blank THEN Front(text) ELSE text

Joined(lines) == IF lines = <<>> THEN <<Blank>> ELSE lines

\* Mutant: the block does not end with LF.
backend_block_open(s) == << Blank, L("header", s), L("other", s) >>

backend_block(s) == << Blank, L("header", s), L("other", s), Blank >>

acl_lines(s) == << L("acl", s), L("use", s) >>

service_exists(text, s) == Contains(Lines(text), L("acl", s))

ServicesIn(text) == {s \in Services : service_exists(text, s)}

\* The services that list_services reports, by their headers.
list_services(text) == {s \in Services : Contains(Lines(text), L("header", s))}

\* Where add_service inserts its lines: 0 is FrontendNotFound.
InsertPos(text) ==
  SelectInSeq(Lines(text), LAMBDA l : l.kind \in {"use", "default"})

\* add_service
WithService(text, s) ==
  LET lines == Lines(text)
      pos == InsertPos(text)
  IN  SubSeq(lines, 1, pos - 1) \o acl_lines(s)
        \o SubSeq(lines, pos, Len(lines)) \o backend_block(s)

\* Line i is in the section of the service.
InSection(text, i, s) ==
  \E h \in 1 .. i : /\ text[h] = L("header", s)
                   /\ \A j \in (h + 1) .. i : text[j].kind # "header"

\* remove_service skips the acl and use lines of the service and its backend
\* section, which ends at the next header.
Skipped(text, i, s) ==
  text[i] \in {L("acl", s), L("use", s)} \/ InSection(text, i, s)

\* What the loop of remove_service has collected after i lines.
Filtered(text, s) ==
  LET kept[i \in 0 .. Len(Lines(text))] ==
        IF i = 0 THEN <<>>
        ELSE IF Skipped(text, i, s) THEN kept[i - 1]
        ELSE Append(kept[i - 1], text[i])
  IN  kept

\* remove_service
WithoutService(text, s) == Joined(Filtered(text, s)[Len(Lines(text))])

\* What a failed write may leave: the beginning of the text, which ends with
\* LF if it stops where a blank line begins.
Truncated(text) == {Joined(SubSeq(text, 1, k)) : k \in Cuts \cap 0 .. Len(text)}

\* haproxy -c: every line can be parsed, the last one ends with LF, some
\* frontend listens, and each backend that is referred to is there once.
Accepted(text) ==
  LET count(l) == Cardinality({i \in DOMAIN text : text[i] = l})
  IN  /\ Last(text) = Blank
      /\ count(L("header", None)) = 2
      /\ \A s \in Services :
           /\ count(L("use", s)) > 0 => count(L("header", s)) = 1
           /\ count(L("header", s)) <= 1
      /\ \A i \in DOMAIN text : text[i].svc \notin Invalid

=============================================================================
