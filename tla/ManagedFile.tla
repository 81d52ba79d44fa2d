------------------------------ MODULE ManagedFile ------------------------------
(***************************************************************************)
(* A file that scripts maintain together with its user (modules/file.rs):  *)
(* append() and append_template() keep a section of it between two lines   *)
(* with a marker and the hash of the section, copy() and template()        *)
(* replace all of it, touch() creates it.  The user edits any line between *)
(* the calls, and a call can be interrupted while it writes.               *)
(***************************************************************************)
EXTENDS Naturals, Sequences, FiniteSets, SequencesExt

CONSTANTS
  Markers,      \* markers of sections
  Extensions,   \* the markers that contain a marker, itself included
  Contents,     \* what scripts write
  TextOf,       \* its lines, which may mention a marker
  Terminated,   \* the contents that end in a newline
  MaxCalls, MaxEdits    \* bounds

ASSUME FileAssumption ==
  /\ Extensions \in [Markers -> SUBSET Markers] /\ \A m \in Markers : m \in Extensions[m]
  /\ Terminated \subseteq Contents /\ "" \notin Markers
  /\ TextOf \in [Contents -> Seq([mark : Markers \cup {""}, text : STRING]) \ {<<>>}]
  /\ MaxCalls \in Nat /\ MaxEdits \in Nat

VARIABLES
  file,         \* exists, its lines, and whether the last one ends in a newline
  pending,      \* what is being written to it, after it was truncated
  pc, op, args, \* the call: append(marker, content), copy(content), ...
  outcome,      \* what it returned
  calls, edits,
  before,       \* history: the file at the time of the call
  applied       \* history: the content last appended under a marker, undisturbed

callVars == <<pc, op, args, outcome, before, calls>>
fileVars == <<file, pending, callVars, edits, applied>>

\* A line of a section's bounds has the marker and the hash of a content; a line of
\* text has none, or mentions a marker.
Text(t) == [mark |-> "", text |-> t]
Blank == Text("")
Bound(m, c) == [mark |-> m, text |-> c]
Mention(m) == [mark |-> m, text |-> "mention"]

\* Lines of text that do not survive a call: one that ends in "\r\n", which lines()
\* takes for its line end, and one that is not UTF-8.
Note == Text("note")
Crlf == Text("note, with a carriage return")
Latin == Text("not UTF-8")
Replaced == Text("U+FFFD")

Decoded(line) == IF line = Latin THEN Replaced ELSE line
Split(line)   == IF line = Crlf THEN Note ELSE line

Absent == [exists |-> FALSE, lines |-> <<>>, eol |-> TRUE]
Empty  == [exists |-> TRUE, lines |-> <<>>, eol |-> TRUE]
Nothing == "nothing"

Source(c) == [exists |-> TRUE, lines |-> TextOf[c], eol |-> c \in Terminated]

FileInit ==
  /\ file \in {Absent, Empty} \cup {Source(c) : c \in Contents}
  /\ pending = Empty /\ pc = "idle" /\ op = "none" /\ args = <<>> /\ outcome = "none"
  /\ calls = 0 /\ edits = 0 /\ before = file
  /\ applied = [m \in Markers |-> Nothing]

-----------------------------------------------------------------------------
(* append_to_existing                                                      *)

Mentions(line, m) == line.mark \in Extensions[m]
Hits(f, m) == {i \in DOMAIN f.lines : Mentions(f.lines[i], m)}

First(S) == CHOOSE i \in S : \A j \in S : i <= j

\* The lines at the positions I, in order
Subsequence(lines, I) ==
  [k \in 1 .. Cardinality(I) |->
     lines[CHOOSE i \in I : Cardinality({j \in I : j <= i}) = k]]

\* The first line with the marker starts the section and the second one ends it; a
\* section without an end goes to the end of the file.
SectionEnd(f, m) ==
  LET rest == Hits(f, m) \ {First(Hits(f, m))}
  IN  IF rest = {} THEN Len(f.lines) ELSE First(rest)

Section(f, m) ==
  IF Hits(f, m) = {} THEN {} ELSE First(Hits(f, m)) .. SectionEnd(f, m)

\* Further lines with the marker are dropped, what is between them stays.
Behind(f, m) ==
  Subsequence(f.lines, {i \in SectionEnd(f, m) + 1 .. Len(f.lines) : ~ Mentions(f.lines[i], m)})

\* The section as it is written the first time: "{marker} {hash}\n{content}\n..."
NewSection(m, c) ==
  <<Bound(m, c)>> \o TextOf[c] \o (IF c \in Terminated THEN <<Blank>> ELSE <<>>)
                  \o <<Bound(m, c)>>

\* ... and when it is rewritten, from content.lines()
SplitText(c) == [i \in DOMAIN TextOf[c] |-> Split(TextOf[c][i])]
Rewritten(m, c) == <<Bound(m, c)>> \o SplitText(c) \o <<Bound(m, c)>>

\* Mutant of Rewrite: the lines behind the section are not copied.
RewriteDropsRest(f, m, c) ==
  [exists |-> TRUE, eol |-> FALSE,
   lines |-> SubSeq(f.lines, 1, First(Hits(f, m)) - 1) \o Rewritten(m, c)]

\* Mutant of Rewrite: the hash of the old section stays in its bounds.
RewriteOldHash(f, m, c) ==
  LET start == First(Hits(f, m))
  IN  [exists |-> TRUE, eol |-> FALSE,
       lines |-> SubSeq(f.lines, 1, start) \o SplitText(c) \o <<f.lines[start]>> \o Behind(f, m)]

\* The section is replaced; join("\n") leaves no newline at the end.
Rewrite(f, m, c) ==
  [exists |-> TRUE, eol |-> FALSE,
   lines |-> SubSeq(f.lines, 1, First(Hits(f, m)) - 1) \o Rewritten(m, c) \o Behind(f, m)]

\* "\n" and the section: an empty line, if the last line was ended
Add(f, m, c) ==
  [exists |-> TRUE, eol |-> TRUE,
   lines |-> f.lines \o (IF f.exists /\ f.eol THEN <<Blank>> ELSE <<>>) \o NewSection(m, c)]

Unchanged(f, m, c) == Hits(f, m) # {} /\ f.lines[First(Hits(f, m))] = Bound(m, c)

Placed(f, m, c) == IF Hits(f, m) = {} THEN Add(f, m, c) ELSE Rewrite(f, m, c)

\* What append() takes the file for: String::from_utf8_lossy of all of it, and its
\* lines() where there is a section to look for.
Taken(f, m) ==
  [f EXCEPT !.lines = [i \in DOMAIN @ |->
     IF Hits(f, m) = {} THEN Decoded(@[i]) ELSE Split(Decoded(@[i]))]]

Appended(f, m, c) == Placed(Taken(f, m), m, c)

-----------------------------------------------------------------------------
(* The calls                                                               *)

Begin(f, a) ==
  /\ pc = "idle" /\ calls < MaxCalls
  /\ op' = f /\ args' = a /\ before' = file /\ calls' = calls + 1

\* Mutant of Truncate: the file is written over from its start.
OpenWithoutTruncate(new) ==
  /\ pc' = "write" /\ outcome' = "none" /\ file' = [file EXCEPT !.exists = TRUE]
  /\ pending' = [new EXCEPT !.lines = @ \o SubSeq(file.lines, Len(@) + 1, Len(file.lines))]

\* open with create and truncate
Truncate(new) ==
  /\ pc' = "write" /\ outcome' = "none" /\ file' = Empty /\ pending' = new

Return(res) == pc' = "idle" /\ outcome' = res

\* The file has sections of this marker only between two of its bounds.
WellFormed(f, m) ==
  /\ Cardinality(Hits(f, m)) \in {0, 2}
  /\ \A i \in Hits(f, m) : \E c \in Contents : f.lines[i] = Bound(m, c)

\* No line of the content would be taken for a bound of k.
Silent(c, k) == \A i \in DOMAIN TextOf[c] : ~ Mentions(TextOf[c][i], k)

\* A section of k is outside of the one of m, and none of its bounds is taken for m's.
Apart(f, k, m) ==
  /\ WellFormed(f, m) /\ k \notin Extensions[m]
  /\ \A i \in Hits(f, k) \cap Section(f, m) : \E j \in Hits(f, k) : j < i

AppendTo(m, c) ==
  /\ Begin("append", <<m, c>>)
  /\ IF Unchanged(file, m, c)
     THEN Return("unchanged") /\ UNCHANGED <<file, pending, applied>>
     ELSE /\ Truncate(Appended(file, m, c))
          /\ applied' = [k \in Markers |->
               CASE k = m -> c
                 [] k # m /\ Apart(file, k, m) /\ Silent(c, k) -> applied[k]
                 [] OTHER -> Nothing]
  /\ UNCHANGED edits

\* The source cannot be read, or the template not rendered; the file is not looked at.
CallFails ==
  /\ Begin("none", <<>>) /\ Return("error")
  /\ UNCHANGED <<file, pending, edits, applied>>

\* should_update_file compares the hashes of all of the file.  A last line that is
\* empty and not ended is but the end of the line before it.
Holds(f, c) ==
  \/ f = Source(c)
  \/ /\ c \in Terminated
     /\ f = [exists |-> TRUE, lines |-> Append(TextOf[c], Blank), eol |-> FALSE]

Overwrite(f, c) ==
  /\ Begin(f, <<c>>)
  /\ IF Holds(file, c)
     THEN Return("unchanged") /\ UNCHANGED <<file, pending, applied>>
     ELSE Truncate(Source(c)) /\ applied' = [m \in Markers |-> Nothing]
  /\ UNCHANGED edits

Copy(c)     == Overwrite("copy", c)
Template(c) == Overwrite("template", c)

Touch ==
  /\ Begin("touch", <<>>)
  /\ file' = [file EXCEPT !.exists = TRUE] /\ Return("ok")
  /\ UNCHANGED <<pending, edits, applied>>

\* write_all
WriteAll ==
  /\ pc = "write"
  /\ file' = pending /\ pending' = Empty /\ Return("updated")
  /\ UNCHANGED <<op, args, before, calls, edits, applied>>

\* The disk is full, or the process is killed: the file is cut off somewhere.
Interrupted ==
  /\ pc = "write"
  /\ \E n \in 0 .. Len(pending.lines) - 1 :
       file' = [exists |-> TRUE, lines |-> SubSeq(pending.lines, 1, n), eol |-> TRUE]
  /\ pending' = Empty /\ Return("interrupted") /\ applied' = [m \in Markers |-> Nothing]
  /\ UNCHANGED <<op, args, before, calls, edits>>

-----------------------------------------------------------------------------
(* The user                                                                *)

Edited(lines) ==
  /\ pc = "idle" /\ edits < MaxEdits /\ file.exists
  /\ file' = [file EXCEPT !.lines = lines, !.eol = @ \/ lines = <<>>] /\ edits' = edits + 1
  /\ op' = "none" /\ args' = <<>> /\ outcome' = "none" /\ before' = file'
  /\ UNCHANGED <<pending, pc, calls>>

\* A line outside or inside of a section; a bound leaves the section broken.
Delete ==
  \E i \in DOMAIN file.lines :
    /\ Edited(RemoveAt(file.lines, i))
    /\ applied' = [m \in Markers |-> IF Mentions(file.lines[i], m) THEN Nothing ELSE applied[m]]

Insert ==
  \E i \in 1 .. Len(file.lines) + 1, line \in {Note, Crlf, Latin} \cup {Mention(m) : m \in Markers} :
    /\ Edited(InsertAt(file.lines, i, line))
    /\ applied' = [m \in Markers |-> IF Mentions(line, m) THEN Nothing ELSE applied[m]]

FileNext ==
  \/ \E m \in Markers, c \in Contents : AppendTo(m, c)
  \/ \E c \in Contents : Copy(c) \/ Template(c)
  \/ CallFails \/ Touch \/ WriteAll \/ Interrupted
  \/ Delete \/ Insert

FileSpec == FileInit /\ [][FileNext]_fileVars

-----------------------------------------------------------------------------
(* Properties                                                              *)

FileTypeOK ==
  /\ file.exists \in BOOLEAN /\ file.eol \in BOOLEAN /\ pending.exists
  /\ \A line \in Range(file.lines) : line.mark \in Markers \cup {""}
  /\ pc \in {"idle", "write"}
  /\ pc = "write" => file = Empty
  /\ op \in {"none", "append", "copy", "template", "touch"}
  /\ outcome \in {"none", "updated", "unchanged", "ok", "error", "interrupted"}
  /\ applied \in [Markers -> Contents \cup {Nothing}]
  /\ calls \in 0..MaxCalls /\ edits \in 0..MaxEdits

\* "Append to an existing file, without overwriting unrelated sections": on a file
\* where the marker is only in the bounds of one section, append() leaves every line
\* outside of it, in order, as it takes the file (a byte that is not UTF-8 replaced
\* and, if there was a section, "\r\n" as "\n"), whatever other sections and lines the
\* user and earlier calls have put there; and if the content does not mention the
\* marker it is again in the bounds of one section only.  Behind the first bound is
\* the content.  copy() and template() leave the source and nothing else.  All of them
\* tell whether they wrote.
Outside(f, m) ==
  IF Hits(f, m) = {} THEN f.lines
  ELSE SubSeq(f.lines, 1, First(Hits(f, m)) - 1)
       \o SubSeq(f.lines, SectionEnd(f, m) + 1, Len(f.lines))

CallsExact ==
  pc = "idle" /\ outcome \in {"updated", "unchanged"} =>
    /\ outcome = "unchanged" <=> file = before
    /\ op = "append" /\ outcome = "updated" =>
         LET m == args[1]
             text == TextOf[args[2]]
             old == Taken(before, m)
             start == First(Hits(file, m))
         IN  /\ Len(file.lines) >= start + Len(text)
             /\ \A i \in DOMAIN text : file.lines[start + i] \in {text[i], Split(text[i])}
             /\ WellFormed(before, m) /\ Silent(args[2], m) =>
                  /\ WellFormed(file, m)
                  /\ Outside(file, m) \in {Outside(old, m), Append(old.lines, Blank)}
    /\ op \in {"copy", "template"} => Holds(file, args[1])

\* "Will not update the file if the region is unchanged": the bounds an append() has
\* written are found again by the next one, whatever other calls and users did to the
\* rest of the file, except where the code itself would mistake a line: `applied'
\* forgets a section whose marker a later content or edit mentions, and every section
\* that a call under a marker in other lines than two bounds may have run into.
BoundsKept ==
  pc = "idle" => \A m \in Markers : applied[m] # Nothing => Unchanged(file, m, applied[m])
=============================================================================
