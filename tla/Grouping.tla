------------------------------- MODULE Grouping -------------------------------
(***************************************************************************)
(* Which issue an occurrence belongs to: the normaliser (normalise.py) and *)
(* find_issue (services.py), as the occurrences of a service arrive and    *)
(* people fix and mute the issues they are filed under.                    *)
(*                                                                         *)
(* A line of a trace is a record of its kind; a text is a shape, which     *)
(* tells bugs apart, and a value in it (an id, a uuid, a time, the value   *)
(* of a printed mapping), which does not: normalise_line leaves the shape. *)
(* A path is what stands above the first anchor it contains                *)
(* ("/site-packages/", "/app/", ...), that anchor, or Nothing, and what    *)
(* comes after.  Traces stay below the 200 lines from which                *)
(* SequenceMatcher drops frequent lines.                                   *)
(*                                                                         *)
(* An occurrence carries the bug it is of, which the code does not see; an *)
(* issue keeps the occurrences filed under it, the first one first.  They  *)
(* arrive in the order they happened, and a mute does not expire here;     *)
(* both are AlertStore's.                                                  *)
(*                                                                         *)
(* A definition that stands before its original and differs from it in one *)
(* detail (PathWithCheckout, NormalisePath) is a plausible bug of that     *)
(* code: nothing in Next uses it, and a property is broken when it is put  *)
(* in the place of the original.                                           *)
(***************************************************************************)
EXTENDS Integers, Sequences, FiniteSets

CONSTANTS
  Occurrences,     \* what may be reported: records of Occurrence
  Generated,       \* paths of generated frames
  Threshold,       \* SIMILARITY_THRESHOLD, in tenths
  ShortFrames,     \* SHORT_TRACE_FRAMES
  Candidates,      \* SIMILARITY_CANDIDATES
  MaxArrivals,     \* bound on the occurrences reported
  MaxEdits,        \* bound on the edits of people
  Nothing

ASSUME GroupingAssumption ==
  /\ Threshold \in 1 .. 10
  /\ ShortFrames \in Nat /\ Candidates \in Nat
  /\ MaxArrivals \in Nat /\ MaxEdits \in Nat

\* The same text but for the value in it.
SameText(s, t) == IF s = Nothing \/ t = Nothing THEN s = t ELSE s.shape = t.shape

\* The same path but for what stands above an anchor.
SamePath(p, q) ==
  \/ p = q
  \/ /\ p.anchor # Nothing /\ p.anchor = q.anchor /\ p.tail = q.tail
     /\ p \in Generated <=> q \in Generated

\* The same line but for values, line numbers and the head of its path.
SameLine(k, l) ==
  /\ k.is = l.is
  /\ k.is = "frame" => SamePath(k.path, l.path) /\ k.fn = l.fn
  /\ k.is \in {"source", "other"} => SameText(k.text, l.text)
  /\ k.is = "raised" => k.class = l.class /\ SameText(k.text, l.text)

\* Two occurrences that differ in nothing else.
SameButForValues(o, p) ==
  /\ o.service = p.service /\ o.class = p.class
  /\ SameText(o.message, p.message)
  /\ Len(o.trace) = Len(p.trace)
  /\ \A k \in DOMAIN o.trace : SameLine(o.trace[k], p.trace[k])

\* A trace is a sequence of lines, Nothing is no text, and the occurrences of
\* one bug differ in values, line numbers and what stands above an anchor only:
\* the same code below "/app/" and below "/srv/" is two bugs to the normaliser.
ASSUME OccurrenceAssumption ==
  /\ \A o \in Occurrences :
       /\ o.trace \in Seq({o.trace[k] : k \in DOMAIN o.trace})
       /\ \A k \in DOMAIN o.trace :
            o.trace[k].is = "raised" /\ o.trace[k].text # Nothing => o.trace[k].text.shape # Nothing
  /\ \A o, p \in Occurrences : o.bug = p.bug => SameButForValues(o, p)

VARIABLES
  issues,      \* the issues, in the order they were opened
  arrivals,    \* occurrences recorded so far
  edits        \* edits made so far

vars == <<issues, arrivals, edits>>

-----------------------------------------------------------------------------
(* The normaliser                                                          *)

NormaliseLine(text) == IF text = Nothing THEN Nothing ELSE text.shape

PathWithCheckout(path) == <<path.above, path.anchor, path.tail>>
\* The anchor and all behind it; the whole of a path that has none.
NormalisePath(path) ==
  IF path.anchor # Nothing THEN <<path.anchor, path.tail>> ELSE <<path.above, path.tail>>

\* One line after the others; the source line under a frame goes with it.  Other
\* lines that are not indented are kept ("DETAIL: ...", "The above exception ...");
\* the header of a traceback and blank lines are dropped.
Normalise(sofar, line) ==
  LET keep(l, inFrame) == [kept |-> Append(sofar.kept, l), inFrame |-> inFrame]
      drop == [sofar EXCEPT !.inFrame = FALSE]
  IN  CASE line.is = "frame" ->
             IF line.path \in Generated THEN drop
             ELSE keep(<<"frame", NormalisePath(line.path), line.fn>>, TRUE)
        [] line.is = "source" ->
             IF sofar.inFrame THEN keep(<<"source", NormaliseLine(line.text)>>, FALSE) ELSE drop
        [] line.is = "raised" ->
             keep(<<"raised", line.class, NormaliseLine(line.text)>>, FALSE)
        [] line.is = "other" -> keep(<<"other", NormaliseLine(line.text)>>, FALSE)
        [] OTHER -> drop

NormaliseTrace(trace) ==
  LET after[k \in 0 .. Len(trace)] ==
        IF k = 0 THEN [kept |-> <<>>, inFrame |-> FALSE] ELSE Normalise(after[k - 1], trace[k])
  IN  after[Len(trace)].kept

\* The exception that escaped is named by the last line of its kind; its
\* message is the last there is.
Raised(trace) == {k \in DOMAIN trace : trace[k].is = "raised"}
Told(trace) == {k \in Raised(trace) : trace[k].text # Nothing}
LastOf(lines) == CHOOSE k \in lines : \A l \in lines : l <= k
ExceptionClass(trace) ==
  IF Raised(trace) = {} THEN "" ELSE trace[LastOf(Raised(trace))].class
ExceptionMessage(trace) ==
  IF Told(trace) = {} THEN Nothing ELSE NormaliseLine(trace[LastOf(Told(trace))].text)

\* The class of an occurrence, as its reporter or else its trace has it.
ClassOf(o) == IF o.class # "" THEN o.class ELSE ExceptionClass(o.trace)

\* A line of a log has no trace: its message is all it has.
FramesOf(o) ==
  IF o.trace # <<>> THEN NormaliseTrace(o.trace) ELSE <<<<"message", NormaliseLine(o.message)>>>>

TopFrame(frames) ==
  LET real == SelectSeq(frames, LAMBDA f : f[1] = "frame")
  IN  IF real # <<>> THEN Head(real) ELSE IF frames # <<>> THEN Head(frames) ELSE <<>>

SubjectOf(o) == IF o.message # Nothing THEN NormaliseLine(o.message) ELSE ExceptionMessage(o.trace)

FingerprintOfTop(o) == <<o.service, ClassOf(o), TopFrame(FramesOf(o))>>
Fingerprint(o) == <<o.service, ClassOf(o), TopFrame(FramesOf(o)), SubjectOf(o)>>

-----------------------------------------------------------------------------
(* Similarity: 2 M / T over lines, M as SequenceMatcher counts it          *)

\* A stretch of a trace a beside a stretch of a trace b.
Spans == [alo: Nat \ {0}, ahi: Nat, blo: Nat \ {0}, bhi: Nat]

\* The blocks common to both: first line in a, first line in b, and length.
Blocks(a, b, s) ==
  {block \in (s.alo .. s.ahi) \X (s.blo .. s.bhi) \X (1 .. s.ahi - s.alo + 1) :
     /\ block[1] + block[3] - 1 <= s.ahi /\ block[2] + block[3] - 1 <= s.bhi
     /\ \A n \in 0 .. block[3] - 1 : a[block[1] + n] = b[block[2] + n]}

\* find_longest_match: the longest; of these, the first in a, then in b.
Longest(blocks) ==
  CHOOSE m \in blocks : \A o \in blocks :
    \/ m[3] > o[3]
    \/ m[3] = o[3] /\ m[1] < o[1]
    \/ m[3] = o[3] /\ m[1] = o[1] /\ m[2] <= o[2]

\* What is left of a span before a block, and behind it.
Before(s, m) == [alo |-> s.alo, ahi |-> m[1] - 1, blo |-> s.blo, bhi |-> m[2] - 1]
Behind(s, m) == [alo |-> m[1] + m[3], ahi |-> s.ahi, blo |-> m[2] + m[3], bhi |-> s.bhi]

\* The lines matched: the longest block, and what matches on either side.
Matching(a, b) ==
  LET match[s \in Spans] ==
        LET blocks == Blocks(a, b, s)
            m == Longest(blocks)
        IN  IF blocks = {} THEN 0 ELSE m[3] + match[Before(s, m)] + match[Behind(s, m)]
  IN  match[[alo |-> 1, ahi |-> Len(a), blo |-> 1, bhi |-> Len(b)]]

Frames == [o \in Occurrences |-> FramesOf(o)]
Prints == [o \in Occurrences |-> Fingerprint(o)]

AllFrames == {Frames[o] : o \in Occurrences}
Matched == [pair \in AllFrames \X AllFrames |-> Matching(pair[1], pair[2])]

\* similarity(a, b) >= tenths / 10; two empty traces are alike.
Alike(a, b, tenths) == 20 * Matched[<<a, b>>] >= tenths * (Len(a) + Len(b))

\* similarity(a, b) > similarity(a, c).
Closer(a, b, c) ==
  Matched[<<a, b>>] * (Len(a) + Len(c)) > Matched[<<a, c>>] * (Len(a) + Len(b))

IsShort(frames) == Len(frames) < ShortFrames

ShouldGroup(a, b) ==
  IF IsShort(a) \/ IsShort(b) THEN a = b ELSE Alike(a, b, Threshold)

-----------------------------------------------------------------------------
(* The tracker                                                             *)

\* The most recent issues an occurrence is compared with: of its service, and
\* of its class if it has one; a muted issue is none of them.
CandidatesFor(o) ==
  LET open == {i \in DOMAIN issues :
                 /\ issues[i].service = o.service
                 /\ issues[i].status # "muted"
                 /\ ClassOf(o) # "" => issues[i].class = ClassOf(o)}
  IN  {i \in open : Cardinality({j \in open : issues[j].seen > issues[i].seen}) < Candidates}

\* The closest that groups; of equals, the one seen last.  A score of 0 is none.
Similar(o) ==
  LET frames == Frames[o]
      alike == {i \in CandidatesFor(o) : ShouldGroup(frames, issues[i].frames)}
  IN  {i \in alike : \A j \in alike \ {i} :
         \/ Closer(frames, issues[i].frames, issues[j].frames)
         \/ /\ ~ Closer(frames, issues[j].frames, issues[i].frames)
            /\ issues[i].seen > issues[j].seen}

Exact(o) == {i \in DOMAIN issues : issues[i].fingerprint = Prints[o]}

\* find_issue: by fingerprint, whatever the status; then by similarity.
FindIssue(o) == IF Exact(o) # {} THEN Exact(o) ELSE Similar(o)

Open(o) ==
  /\ FindIssue(o) = {}
  /\ issues' = Append(issues,
       [fingerprint |-> Prints[o], service |-> o.service, class |-> ClassOf(o),
        frames |-> Frames[o], status |-> "new", seen |-> arrivals, filed |-> <<o>>])

FramesOfLast(i, o) == Frames[o]
\* The frames of an issue are those of its first occurrence.
FramesAfter(i, o) == issues[i].frames

Join(o) ==
  \E i \in FindIssue(o) :
    issues' = [issues EXCEPT ![i].seen = arrivals,
                             ![i].status = IF @ = "fixed" THEN "regressed" ELSE @,
                             ![i].frames = FramesAfter(i, o),
                             ![i].filed = Append(@, o)]

Record(o) ==
  /\ arrivals < MaxArrivals
  /\ Open(o) \/ Join(o)
  /\ arrivals' = arrivals + 1
  /\ UNCHANGED edits

\* PATCH and fix, of which only the status matters here.
SetStatus(i, status) ==
  /\ edits < MaxEdits
  /\ issues[i].status # status
  /\ issues' = [issues EXCEPT ![i].status = status]
  /\ edits' = edits + 1
  /\ UNCHANGED arrivals

Init == issues = <<>> /\ arrivals = 0 /\ edits = 0

Next ==
  \/ \E o \in Occurrences : Record(o)
  \/ \E i \in DOMAIN issues, status \in {"new", "fixed", "muted"} : SetStatus(i, status)

Spec == Init /\ [][Next]_vars

-----------------------------------------------------------------------------
(* Properties                                                              *)

\* "Two tracebacks that differ only in a uuid, an id, a timestamp, a memory
\* address or a checkout path are one issue", of checkouts with the same anchor:
\* whatever arrives and whatever is fixed or muted in between, a bug never opens
\* two issues.
OneBugOpensOneIssue ==
  \A i, j \in DOMAIN issues :
    i # j => Head(issues[i].filed).bug # Head(issues[j].filed).bug

\* The lines a and b have in common, and what any matcher of lines may take
\* of them: pairs that come in the same order in both.
Common(a, b) == {p \in (DOMAIN a) \X (DOMAIN b) : a[p[1]] = b[p[2]]}
InOrder(pairs) == \A p, q \in pairs : p[1] < q[1] <=> p[2] < q[2]

\* The pairs of traces that share enough lines for the threshold; two traces
\* of which nothing is left do.
NearPairs ==
  {pair \in AllFrames \X AllFrames : \E shared \in SUBSET Common(pair[1], pair[2]) :
     /\ 20 * Cardinality(shared) >= Threshold * (Len(pair[1]) + Len(pair[2]))
     /\ InOrder(shared)}

\* "A near-duplicate scoring >= 0.9 over normalised frames joins the existing
\* issue": along any chain of near-duplicates, what is filed under an issue is
\* that near to its FIRST occurrence, unless it shares its fingerprint.
NoDrift ==
  \A i \in DOMAIN issues : \A n \in DOMAIN issues[i].filed :
    LET first == Head(issues[i].filed)
        o == issues[i].filed[n]
        a == Frames[o]
        b == Frames[first]
    IN  \/ Prints[o] = Prints[first]
        \/ <<a, b>> \in NearPairs

\* One line that differs is more than the threshold lets pass.
Shallow(a, b) ==
  LET most == IF Len(a) = Len(b) THEN Len(a) - 1
              ELSE IF Len(a) < Len(b) THEN Len(a) ELSE Len(b)
  IN  20 * most < Threshold * (Len(a) + Len(b))

\* "The case that must not group - a different constraint on the same table,
\* from the same frames": an occurrence whose exception has another message
\* than that of an issue's first one is not filed there.  Of deep stacks it
\* does not hold: there one line of many does not keep two traces apart.
OtherMessageOtherIssue ==
  \A i \in DOMAIN issues : \A n \in DOMAIN issues[i].filed :
    LET first == Head(issues[i].filed)
        o == issues[i].filed[n]
    IN  ~ /\ Shallow(Frames[o], Frames[first])
          /\ SubjectOf(first) # SubjectOf(o)
          /\ ExceptionMessage(first.trace) # ExceptionMessage(o.trace)

\* README: "A short trace groups only on an exact match after normalisation."
\* A shared fingerprint comes before that rule.
ShortMatchesExactly ==
  \A i \in DOMAIN issues : \A n \in DOMAIN issues[i].filed :
    IsShort(Frames[issues[i].filed[n]]) =>
      Frames[issues[i].filed[n]] = Frames[Head(issues[i].filed)]

=============================================================================
