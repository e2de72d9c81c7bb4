---------------------------- MODULE SessionParse ----------------------------
(***************************************************************************)
(* The incremental scan of session files that agents are writing           *)
(* (scanProjectDirs of src/parser.ts, reconcileFile of                     *)
(* src/session-cache.ts, readSessionLines of src/fs-utils.ts).             *)
(*                                                                         *)
(* An agent appends prompts and assistant messages; a message is streamed  *)
(* as several lines with one id, and the last one counts.  A scan takes    *)
(* the fingerprints of all files first, then reads those that have         *)
(* changed, from the last complete line on if it can.  A call is where it  *)
(* was first and last seen in its file and the prompt of its turn, so that *)
(* timestamp, usage and turn are the positions they are read from.         *)
(***************************************************************************)
EXTENDS Naturals, Sequences, FiniteSetsExt

CONSTANTS
    Session,    \* session files
    Message,    \* ids of assistant messages
    User,       \* a prompt, which is no message
    MaxLines    \* bound on the lines that are written

ASSUME ParseAssumption == User \notin Message /\ IsFiniteSet(Session) /\ MaxLines \in Nat

VARIABLES
    lines,      \* the lines of each file, a prompt or a message each
    ending,     \* whether the last line is whole, lacks its newline, or is torn
    saved,      \* the claude section of the session cache on disk
    section,    \* the section a scan works on
    scanning,   \* whether there is a scan
    changed,    \* files it still has to parse
    size,       \* the fingerprints it has taken
    seenMsgIds  \* message ids it has met

agents == <<lines, ending>>
parseVars == <<agents, saved, section, scanning, changed, size, seenMsgIds>>

Position == 0 .. MaxLines
Ending == {"newline", "unended", "torn"}

\* What is cached for a file: its fingerprint, lastCompleteLineOffset, its calls and
\* failed.  The code does not keep `read`, the lines that were parsed.
Unparsed == [size |-> <<0, "newline">>, offset |-> 0, calls |-> {}, read |-> 0,
             failed |-> FALSE]

ParseInit ==
    /\ lines = [f \in Session |-> <<>>]
    /\ ending = [f \in Session |-> "newline"]
    /\ saved = [f \in Session |-> Unparsed] /\ section = saved
    /\ scanning = FALSE /\ changed = {} /\ seenMsgIds = {}
    /\ size = [f \in Session |-> Unparsed.size]

-----------------------------------------------------------------------------
(* Agents *)

Lines(f) == {lines[f][i] : i \in DOMAIN lines[f]}
Written == MapThenSumSet(LAMBDA f : Len(lines[f]), Session)

\* A message may be streamed further, or is a new one.
AppendLine(f) ==
    /\ ending[f] = "newline" /\ Written < MaxLines
    /\ \E line \in {User} \cup Lines(f) \cup (Message \ UNION {Lines(g) : g \in Session}) :
           lines' = [lines EXCEPT ![f] = Append(@, line)]
    /\ \E how \in Ending : ending' = [ending EXCEPT ![f] = how]
    /\ UNCHANGED <<saved, section, scanning, changed, size, seenMsgIds>>

FinishLine(f) ==
    /\ ending[f] # "newline"
    /\ ending' = [ending EXCEPT ![f] = "newline"]
    /\ UNCHANGED <<lines, saved, section, scanning, changed, size, seenMsgIds>>

\* A session that is resumed in a new file starts with a copy of the old one.
Fork(f, g) ==
    /\ lines[g] = <<>> /\ ending[f] = "newline"
    /\ \E n \in DOMAIN lines[f] :
           /\ Written + n <= MaxLines
           /\ lines' = [lines EXCEPT ![g] = SubSeq(lines[f], 1, n)]
    /\ UNCHANGED <<ending, saved, section, scanning, changed, size, seenMsgIds>>

-----------------------------------------------------------------------------
(* Parsing a file from a line on *)

\* readSessionLines reads a last line without its newline as well, and a torn one
\* is no entry.
Readable(f) == IF ending[f] = "torn" THEN Len(lines[f]) - 1 ELSE Len(lines[f])

FaultyComplete(f) == Len(lines[f])

\* lastCompleteLineOffset
Complete(f) == IF ending[f] = "newline" THEN Len(lines[f]) ELSE Len(lines[f]) - 1

Least(S) == CHOOSE i \in S : \A j \in S : i <= j
Greatest(S) == CHOOSE i \in S : \A j \in S : j <= i

\* dedupeStreamingMessageIds and groupIntoTurns over the entries from+1 .. to: each
\* message that is not in `seen` is a call in the turn of the prompt before its
\* last line, or in a turn without a prompt.
Calls(f, from, to, seen) ==
    LET At(line) == {i \in (from + 1) .. to : lines[f][i] = line}
    IN {[id |-> m, first |-> Least(At(m)), last |-> Greatest(At(m)),
         prompt |-> Greatest({0} \cup {i \in At(User) : i < Greatest(At(m))})] :
            m \in {id \in Message \ seen : At(id) # {}}}

Ids(calls) == {c.id : c \in calls}

-----------------------------------------------------------------------------
(* scanProjectDirs *)

\* A file that does not exist yet has no line.
Existing == {f \in Session : lines[f] # <<>>}
Size(f) == <<Len(lines[f]), ending[f]>>
Unchanged == {f \in Existing : saved[f] # Unparsed /\ saved[f].size = Size(f)}

\* The directory may list the files in any order, so `changed` is a set.
Discover ==
    /\ ~scanning
    /\ scanning' = TRUE
    /\ changed' = Existing \ Unchanged
    /\ size' = [f \in Session |-> IF f \in changed' THEN Size(f) ELSE Unparsed.size]
    /\ seenMsgIds' = UNION {Ids(saved[f].calls) : f \in Unchanged}
    /\ UNCHANGED <<agents, saved, section>>

\* Files only grow: a fingerprint that differs has a larger size.
Resumable(f) == section[f] # Unparsed /\ ~section[f].failed

\* An id of the cached part is restated in the appended one.
Straddles(f) ==
    \E i \in (section[f].offset + 1) .. Readable(f) : lines[f][i] \in Ids(section[f].calls)

\* Appended calls without a prompt continue the last cached turn.
LastPrompt(calls) ==
    LET last == {c \in calls : \A o \in calls : o.last <= c.last}
    IN IF last = {} THEN 0 ELSE (CHOOSE c \in last : TRUE).prompt

Merged(old, new) ==
    old \cup {[c EXCEPT !.prompt = IF c.prompt = 0 THEN LastPrompt(old) ELSE c.prompt] : c \in new}

Store(f, calls) ==
    /\ section' = [section EXCEPT ![f] =
                      [size |-> size[f], offset |-> Complete(f), calls |-> calls,
                       read |-> Readable(f), failed |-> FALSE]]
    /\ changed' = changed \ {f}
    /\ UNCHANGED <<agents, saved, scanning, size>>

FaultyParseAppended(f) ==
    /\ f \in changed /\ Resumable(f)
    /\ LET new == Calls(f, section[f].offset, Readable(f), seenMsgIds)
       IN /\ seenMsgIds' = seenMsgIds \cup Ids(new) \cup Ids(section[f].calls)
          /\ Store(f, Merged(section[f].calls, new))

\* mergeBoundaryCalls finds no id on both sides, since none straddles.
ParseAppended(f) ==
    /\ f \in changed /\ Resumable(f) /\ ~Straddles(f)
    /\ LET new == Calls(f, section[f].offset, Readable(f), seenMsgIds)
       IN /\ seenMsgIds' = seenMsgIds \cup Ids(new) \cup Ids(section[f].calls)
          /\ Store(f, Merged(section[f].calls, new))

\* From the first line.  A file without any entry gets no cache entry.
ParseFull(f) ==
    /\ f \in changed /\ (Resumable(f) => Straddles(f))
    /\ LET calls == Calls(f, 0, Readable(f), seenMsgIds)
       IN IF Readable(f) = 0
          THEN /\ section' = [section EXCEPT ![f] = Unparsed]
               /\ changed' = changed \ {f}
               /\ UNCHANGED <<agents, saved, scanning, size, seenMsgIds>>
          ELSE seenMsgIds' = seenMsgIds \cup Ids(calls) /\ Store(f, calls)

\* A parse that throws is not repeated until the file changes; ids that it has met
\* stay in the set.
ParseFails(f) ==
    /\ f \in changed
    /\ \E n \in 0 .. Readable(f) :
           LET met == {c \in Calls(f, 0, Readable(f), {}) : c.last <= n}
           IN seenMsgIds' = seenMsgIds \cup Ids(met)
    /\ section' = [section EXCEPT ![f] = [Unparsed EXCEPT !.size = size[f], !.failed = TRUE]]
    /\ changed' = changed \ {f}
    /\ UNCHANGED <<agents, saved, scanning, size>>

EndScan ==
    /\ scanning' = FALSE /\ changed' = {} /\ seenMsgIds' = {}
    /\ size' = [f \in Session |-> Unparsed.size]

\* saveProgress, of a scan that has not read everything yet.
SaveProgress ==
    /\ scanning /\ changed # {}
    /\ saved' = section
    /\ UNCHANGED <<agents, section, scanning, changed, size, seenMsgIds>>

FinishScan ==
    /\ scanning /\ changed = {}
    /\ saved' = section
    /\ EndScan
    /\ UNCHANGED <<agents, section>>

\* The process stops; the next one loads what was saved.
ScanDies ==
    /\ scanning
    /\ section' = saved
    /\ EndScan
    /\ UNCHANGED <<agents, saved>>

ParseNext ==
    \/ \E f \in Session :
           \/ AppendLine(f) \/ FinishLine(f)
           \/ \E g \in Session : Fork(f, g)
           \/ ParseAppended(f) \/ ParseFull(f) \/ ParseFails(f)
    \/ Discover \/ SaveProgress \/ FinishScan \/ ScanDies

ParseSpec == ParseInit /\ [][ParseNext]_parseVars

-----------------------------------------------------------------------------
(* Properties *)

\* What a full parse of the lines that were read makes of a file, and what is
\* cached for it, of the messages in no other file.
Own(f, calls) ==
    LET copied == UNION {Lines(g) : g \in Session \ {f}}
    IN {c \in calls : c.id \notin copied}
Full(f) == Own(f, Calls(f, 0, saved[f].read, {}))

\* Resuming changes no figure: each message is counted once, with its first
\* timestamp and its last usage, as a full parse of the same lines counts it,
\* however lines were cut, restated or appended during the scan.
CallsAsFullParse ==
    \A f \in Session : ~saved[f].failed =>
        {<<c.id, c.first, c.last>> : c \in Own(f, saved[f].calls)} =
            {<<c.id, c.first, c.last>> : c \in Full(f)}

\* The same with the turns the calls are in ("The merged result is byte-for-byte
\* identical to a full re-parse", parser.ts:2017).
TurnsAsFullParse ==
    \A f \in Session : ~saved[f].failed => Own(f, saved[f].calls) = Full(f)

\* No message is lost to another file: when the cache is up to date, whatever a
\* file names is counted in some file, although copies are dropped from all but
\* one and a scan may have died or failed in between.
EveryCallKept ==
    (\A f \in Session : ~saved[f].failed) =>
        \A f \in Unchanged, i \in Position :
            1 <= i /\ i <= Readable(f) /\ lines[f][i] # User =>
                \E g \in Session : lines[f][i] \in Ids(saved[g].calls)
=============================================================================
