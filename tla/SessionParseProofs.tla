------------------------- MODULE SessionParseProofs -------------------------
(***************************************************************************)
(* Theorems about the incremental scan of SessionParse, for any number of  *)
(* files, messages and lines, any cuts, copies, failures and deaths.       *)
(***************************************************************************)
EXTENDS MCSessionCache, TLAPS

-----------------------------------------------------------------------------
(* What a cache entry is worth *)

Line == Message \cup {User}

\* The lines that can be read of a file with a given fingerprint.
ReadableOf(print) == IF print[2] = "torn" THEN print[1] - 1 ELSE print[1]

\* Where a line stands among the lines up to n, and among those after `from`.
Read(f, line, n) == {i \in 1 .. n : lines[f][i] = line}
Span(f, line, from, to) == {i \in (from + 1) .. to : lines[f][i] = line}

\* Messages that no other file names.
Owned(f) == {m \in Message : \A g \in Session \ {f} : m \notin Lines(g)}

\* A line that is not whole is the last one of its file.
AgentTypes ==
    /\ lines \in [Session -> Seq(Line)]
    /\ ending \in [Session -> Ending]
    /\ \A f \in Session : ending[f] # "newline" => Len(lines[f]) >= 1

\* An entry holds what was read of its file, which is all that its fingerprint has
\* and no more than can be read now.
Bounded(f, e) ==
    /\ e.offset \in Nat /\ e.read \in Nat
    /\ e.offset <= e.read /\ e.read <= Readable(f)
    /\ \A c \in e.calls : c.id \in Message /\ Read(f, c.id, e.read) # {}
    /\ ~e.failed => ReadableOf(e.size) <= e.read

\* Its calls of the messages that are in no other file are what a full parse makes.
Exact(f, e) ==
    ~e.failed => \A m \in Owned(f) :
        /\ Read(f, m, e.read) # {} => \E c \in e.calls : c.id = m
        /\ \A c \in e.calls : c.id = m =>
               /\ c.first = Least(Read(f, m, e.read))
               /\ c.last = Greatest(Read(f, m, e.read))

\* A message counts in the entry of file h, or will be read again there.
Counts(e, h, m) ==
    \/ \E c \in e.calls : c.id = m
    \/ e.failed /\ Read(h, m, Readable(h)) # {}

\* Whatever has been read of any file is held by some file.
Covers(cache) ==
    \A f \in Session, m \in Message :
        Read(f, m, cache[f].read) # {} => \E h \in Session : Counts(cache[h], h, m)

Sound(cache) ==
    /\ cache = [f \in Session |-> cache[f]]
    /\ \A f \in Session : Bounded(f, cache[f]) /\ Exact(f, cache[f])
    /\ Covers(cache)

\* The messages a scan has met are held by files that it is done with.
Met ==
    /\ seenMsgIds \subseteq Message
    /\ \A m \in seenMsgIds : \E h \in Session \ changed : Counts(section[h], h, m)

ScanTypes ==
    /\ changed \subseteq Session
    /\ \A f \in Session : ReadableOf(size[f]) \in Nat /\ ReadableOf(size[f]) <= Readable(f)
    /\ ~scanning => changed = {} /\ section = saved

ParseInvariant ==
    AgentTypes /\ Sound(saved) /\ Sound(section) /\ Met /\ ScanTypes

-----------------------------------------------------------------------------
(* Files and calls *)

LEMMA FileFacts ==
    ASSUME AgentTypes, NEW f \in Session
    PROVE  /\ lines[f] \in Seq(Line) /\ Len(lines[f]) \in Nat
           /\ DOMAIN lines[f] = 1 .. Len(lines[f])
           /\ Readable(f) \in Nat /\ Complete(f) \in Nat
           /\ Complete(f) <= Readable(f) /\ Readable(f) <= Len(lines[f])
           /\ ReadableOf(Size(f)) = Readable(f)
  BY DEF AgentTypes, Readable, Complete, ReadableOf, Size, Ending

LEMMA ReadIsSpan ==
    ASSUME NEW f, NEW line, NEW n \in Nat
    PROVE  Span(f, line, 0, n) = Read(f, line, n)
  BY DEF Span, Read

\* What is read is in the file; more of it is read with more lines.
LEMMA ReadFacts ==
    ASSUME AgentTypes, NEW f \in Session, NEW m, NEW n \in Nat, n <= Readable(f),
           Read(f, m, n) # {}
    PROVE  Read(f, m, Readable(f)) # {} /\ m \in Lines(f)
  <1>1. PICK i \in 1 .. n : lines[f][i] = m
    BY DEF Read
  <1>2. i \in 1 .. Readable(f) /\ i \in DOMAIN lines[f]
    BY FileFacts
  <1> QED
    BY <1>1, <1>2 DEF Read, Lines

\* What a parse of the lines from+1 .. to makes.
LEMMA NewCalls ==
    ASSUME NEW f, NEW from, NEW to, NEW seen
    PROVE  /\ \A m \in Message \ seen : Span(f, m, from, to) # {} =>
                  \E c \in Calls(f, from, to, seen) : c.id = m
           /\ \A c \in Calls(f, from, to, seen) :
                  /\ c.id \in Message \ seen /\ Span(f, c.id, from, to) # {}
                  /\ c.first = Least(Span(f, c.id, from, to))
                  /\ c.last = Greatest(Span(f, c.id, from, to))
                  /\ c = [id |-> c.id, first |-> c.first, last |-> c.last,
                          prompt |-> c.prompt]
  <1> DEFINE Found(line) == Span(f, line, from, to)
             call(m) == [id |-> m, first |-> Least(Found(m)), last |-> Greatest(Found(m)),
                         prompt |-> Greatest({0} \cup {i \in Found(User) : i < Greatest(Found(m))})]
  <1>1. Calls(f, from, to, seen) = {call(m) : m \in {id \in Message \ seen : Found(id) # {}}}
    BY DEF Calls, Span
  <1>2. \A m : /\ call(m).id = m /\ call(m).first = Least(Found(m))
               /\ call(m).last = Greatest(Found(m))
               /\ call(m) = [id |-> call(m).id, first |-> call(m).first,
                             last |-> call(m).last, prompt |-> call(m).prompt]
    OBVIOUS
  <1> HIDE DEF call
  <1> QED
    BY <1>1, <1>2

\* A merge adds the new calls, as far as id and positions go.
LEMMA MergedCalls ==
    ASSUME NEW old, NEW f, NEW from, NEW to, NEW seen
    PROVE  LET new == Calls(f, from, to, seen) all == Merged(old, new)
           IN  /\ old \subseteq all
               /\ \A d \in new : \E c \in all :
                      c.id = d.id /\ c.first = d.first /\ c.last = d.last
               /\ \A c \in all : c \in old \/ \E d \in new :
                      c.id = d.id /\ c.first = d.first /\ c.last = d.last
  <1> DEFINE new == Calls(f, from, to, seen)
             placed(c) == [c EXCEPT !.prompt = IF c.prompt = 0 THEN LastPrompt(old)
                                               ELSE c.prompt]
  <1>1. Merged(old, new) = old \cup {placed(c) : c \in new}
    BY DEF Merged
  <1>2. ASSUME NEW c \in new
        PROVE  placed(c).id = c.id /\ placed(c).first = c.first /\ placed(c).last = c.last
    <2>1. c = [id |-> c.id, first |-> c.first, last |-> c.last, prompt |-> c.prompt]
      BY NewCalls
    <2> QED
      BY <2>1
  <1> HIDE DEF new, placed
  <1> QED
    BY <1>1, <1>2 DEF new

\* No message that only f names has been met before f is parsed.
LEMMA OwnedNotMet ==
    ASSUME ParseInvariant, NEW f \in changed, NEW m \in Owned(f)
    PROVE  m \notin seenMsgIds
  <1> SUFFICES ASSUME m \in seenMsgIds PROVE FALSE
    OBVIOUS
  <1>1. PICK h \in Session \ changed : Counts(section[h], h, m)
    BY DEF ParseInvariant, Met
  <1>2. h # f /\ m \notin Lines(h)
    BY DEF Owned
  <1>3. Bounded(h, section[h]) /\ AgentTypes /\ Readable(h) \in Nat
    BY FileFacts DEF ParseInvariant, Sound
  <1>4. Read(h, m, Readable(h)) # {}
    <2>1. CASE \E c \in section[h].calls : c.id = m
      BY <1>3, <2>1, ReadFacts DEF Bounded
    <2> QED
      BY <1>1, <2>1 DEF Counts
  <1> QED
    BY <1>2, <1>3, <1>4, ReadFacts

-----------------------------------------------------------------------------
(* One file parsed *)

\* A file gets a new entry: the invariant asks of it that it is bounded and exact,
\* that it holds what its file names and nobody else does, and that nothing else
\* is reported as met.
LEMMA NewEntry ==
    ASSUME ParseInvariant, NEW f \in changed, NEW e,
           section' = [section EXCEPT ![f] = e], changed' = changed \ {f},
           UNCHANGED <<agents, saved, scanning, size>>,
           Bounded(f, e), Exact(f, e),
           \A m \in Message : Read(f, m, Readable(f)) # {} =>
               \/ m \in seenMsgIds \/ Counts(e, f, m)
               \/ \E h \in Session \ {f} : Counts(section[h], h, m),
           seenMsgIds' \subseteq Message,
           \A m \in seenMsgIds' : m \in seenMsgIds \/ Counts(e, f, m)
    PROVE  ParseInvariant'
  <1> USE DEF ParseInvariant
  <1>1. /\ f \in Session /\ lines' = lines /\ ending' = ending /\ saved' = saved
        /\ scanning' = scanning /\ size' = size
        /\ section'[f] = e /\ \A h \in Session \ {f} : section'[h] = section[h]
        /\ section' = [h \in Session |-> section'[h]]
    BY DEF ScanTypes, agents, Sound
  <1>2. /\ \A g, m, n : Read(g, m, n)' = Read(g, m, n)
        /\ \A g : Readable(g)' = Readable(g) /\ Lines(g)' = Lines(g)
        /\ \A g : Owned(g)' = Owned(g)
        /\ AgentTypes'
    BY <1>1 DEF Read, Readable, Lines, Owned, AgentTypes
  <1>3. \A g, x, m : Counts(x, g, m)' <=> Counts(x, g, m)
    BY <1>2 DEF Counts
  <1>4. \A m \in Message : m \in seenMsgIds =>
            \E h \in Session \ {f} : h \notin changed /\ Counts(section[h], h, m)
    BY DEF Met
  <1>5. ASSUME NEW h \in Session, NEW m \in Message, Counts(section[h], h, m)
        PROVE  \E k \in Session : Counts(section'[k], k, m)
    <2>1. CASE h # f
      BY <1>1, <1>5, <2>1
    <2>2. CASE h = f
      <3>1. Read(f, m, Readable(f)) # {}
        <4>1. CASE \E c \in section[f].calls : c.id = m
          <5>1. Bounded(f, section[f]) /\ AgentTypes /\ f \in Session
            BY <1>1 DEF Sound
          <5> QED
            BY <4>1, <5>1, ReadFacts DEF Bounded
        <4> QED
          BY <1>5, <2>2, <4>1 DEF Counts
      <3> QED
        BY <1>1, <1>4, <3>1
    <2> QED
      BY <2>1, <2>2
  <1>6. Covers(section)'
    <2> SUFFICES ASSUME NEW g \in Session, NEW m \in Message, Read(g, m, section'[g].read) # {}
                 PROVE  \E k \in Session : Counts(section'[k], k, m)
      BY <1>2, <1>3 DEF Covers
    <2>1. CASE g # f
      <3>1. PICK h \in Session : Counts(section[h], h, m)
        BY <1>1, <2>1 DEF Sound, Covers
      <3> QED
        BY <1>5, <3>1
    <2>2. CASE g = f
      <3>1. Read(f, m, Readable(f)) # {}
        BY <1>1, <2>2, ReadFacts DEF Bounded
      <3> QED
        BY <1>1, <1>4, <3>1
    <2> QED
      BY <2>1, <2>2
  <1>7. Sound(section)'
    <2>1. ASSUME NEW g \in Session PROVE Bounded(g, section'[g]) /\ Exact(g, section'[g])
      BY <1>1 DEF Sound
    <2>2. ASSUME NEW g \in Session PROVE Bounded(g, section[g])'
      BY <1>2, <2>1 DEF Bounded
    <2>3. ASSUME NEW g \in Session PROVE Exact(g, section[g])'
      BY <1>2, <2>1 DEF Exact
    <2> QED
      BY <1>1, <1>6, <2>2, <2>3 DEF Sound
  <1>8. Sound(saved)'
    <2>1. ASSUME NEW g \in Session PROVE Bounded(g, saved[g])'
      BY <1>1, <1>2 DEF Sound, Bounded
    <2>2. ASSUME NEW g \in Session PROVE Exact(g, saved[g])'
      BY <1>1, <1>2 DEF Sound, Exact
    <2>3. Covers(saved)'
      BY <1>1, <1>2 DEF Sound, Covers, Counts
    <2> QED
      BY <1>1, <2>1, <2>2, <2>3 DEF Sound
  <1>9. Met'
    <2> SUFFICES ASSUME NEW m \in seenMsgIds'
                 PROVE  \E h \in Session \ changed' : Counts(section'[h], h, m)
      BY <1>3 DEF Met
    <2>1. CASE m \in seenMsgIds
      BY <1>1, <1>4, <2>1
    <2>2. CASE Counts(e, f, m)
      BY <1>1, <2>2
    <2> QED
      BY <2>1, <2>2
  <1>10. ScanTypes'
    BY <1>1, <1>2 DEF ScanTypes
  <1> QED
    BY <1>2, <1>7, <1>8, <1>9, <1>10

LEMMA FullKeeps ==
    ASSUME ParseInvariant, NEW f \in Session, ParseFull(f)
    PROVE  ParseInvariant'
  <1> USE DEF ParseInvariant
  <1>1. /\ f \in changed /\ AgentTypes /\ Readable(f) \in Nat /\ Complete(f) \in Nat
        /\ Complete(f) <= Readable(f) /\ ReadableOf(size[f]) <= Readable(f)
    BY FileFacts DEF ParseFull, ScanTypes
  <1>2. CASE Readable(f) = 0
    <2>1. /\ section' = [section EXCEPT ![f] = Unparsed] /\ changed' = changed \ {f}
          /\ UNCHANGED <<agents, saved, scanning, size>> /\ seenMsgIds' = seenMsgIds
      BY <1>2 DEF ParseFull
    <2>2. \A m : Read(f, m, 0) = {}
      BY DEF Read
    <2>3. /\ Unparsed.size = <<0, "newline">> /\ Unparsed.offset = 0 /\ Unparsed.calls = {}
          /\ Unparsed.read = 0 /\ Unparsed.failed = FALSE
      BY DEF Unparsed
    <2>4. Bounded(f, Unparsed)
      BY <1>1, <2>3 DEF Bounded, ReadableOf
    <2>5. Exact(f, Unparsed)
      BY <2>2, <2>3 DEF Exact
    <2> QED
      BY <1>1, <1>2, <2>1, <2>2, <2>4, <2>5, NewEntry DEF Met
  <1>3. CASE Readable(f) # 0
    <2> DEFINE calls == Calls(f, 0, Readable(f), seenMsgIds)
               e == [size |-> size[f], offset |-> Complete(f), calls |-> calls,
                     read |-> Readable(f), failed |-> FALSE]
    <2>1. /\ section' = [section EXCEPT ![f] = e] /\ changed' = changed \ {f}
          /\ UNCHANGED <<agents, saved, scanning, size>>
          /\ seenMsgIds' = seenMsgIds \cup Ids(calls)
      BY <1>3 DEF ParseFull, Store
    <2>2. /\ \A m \in Message \ seenMsgIds : Read(f, m, Readable(f)) # {} =>
                 \E c \in calls : c.id = m
          /\ \A c \in calls : /\ c.id \in Message \ seenMsgIds
                              /\ Read(f, c.id, Readable(f)) # {}
                              /\ c.first = Least(Read(f, c.id, Readable(f)))
                              /\ c.last = Greatest(Read(f, c.id, Readable(f)))
      BY <1>1, NewCalls, ReadIsSpan
    <2>3. /\ e.size = size[f] /\ e.offset = Complete(f) /\ e.calls = calls
          /\ e.read = Readable(f) /\ e.failed = FALSE
      OBVIOUS
    <2> HIDE DEF calls, e
    <2>4. Bounded(f, e)
      BY <1>1, <2>2, <2>3 DEF Bounded
    <2>5. Exact(f, e)
      <3>1. Owned(f) \subseteq Message \ seenMsgIds
        BY <1>1, OwnedNotMet DEF Owned
      <3> QED
        BY <2>2, <2>3, <3>1 DEF Exact
    <2>6. \A m \in Ids(calls) : m \in Message /\ Counts(e, f, m)
      BY <2>2, <2>3 DEF Ids, Counts
    <2>7. \A m \in Message : Read(f, m, Readable(f)) # {} =>
              m \in seenMsgIds \/ Counts(e, f, m)
      BY <2>2, <2>3 DEF Counts
    <2> QED
      BY <1>1, <2>1, <2>4, <2>5, <2>6, <2>7, NewEntry DEF Met
  <1> QED
    BY <1>2, <1>3

LEMMA FailsKeeps ==
    ASSUME ParseInvariant, NEW f \in Session, ParseFails(f)
    PROVE  ParseInvariant'
  <1> USE DEF ParseInvariant
  <1> DEFINE e == [Unparsed EXCEPT !.size = size[f], !.failed = TRUE]
  <1>1. /\ f \in changed /\ AgentTypes /\ Readable(f) \in Nat
    BY FileFacts DEF ParseFails, ScanTypes
  <1>2. /\ section' = [section EXCEPT ![f] = e] /\ changed' = changed \ {f}
        /\ UNCHANGED <<agents, saved, scanning, size>>
    BY DEF ParseFails
  <1>3. /\ e.size = size[f] /\ e.offset = 0 /\ e.calls = {} /\ e.read = 0 /\ e.failed = TRUE
    BY DEF Unparsed
  <1> HIDE DEF e
  <1>4. Bounded(f, e) /\ Exact(f, e)
    BY <1>1, <1>3 DEF Bounded, Exact
  <1>5. \A m \in Message : Read(f, m, Readable(f)) # {} => Counts(e, f, m)
    BY <1>3 DEF Counts
  <1>6. \A m \in seenMsgIds' : m \in seenMsgIds \/ (m \in Message /\ Counts(e, f, m))
    <2> DEFINE calls == Calls(f, 0, Readable(f), {})
    <2>1. \A c \in calls : c.id \in Message /\ Read(f, c.id, Readable(f)) # {}
      BY <1>1, NewCalls, ReadIsSpan
    <2>2. \E met \in SUBSET calls : seenMsgIds' = seenMsgIds \cup Ids(met)
      BY DEF ParseFails
    <2> HIDE DEF calls
    <2> QED
      BY <1>5, <2>1, <2>2 DEF Ids
  <1> QED
    BY <1>1, <1>2, <1>4, <1>5, <1>6, NewEntry DEF Met

\* Where a message is, when none of the lines after `from` or none of those up to
\* `from` is one of it.
LEMMA SpanMeetsRead ==
    ASSUME NEW f, NEW m, NEW from \in Nat, NEW read \in Nat, NEW to \in Nat,
           from <= read, read <= to
    PROVE  /\ Span(f, m, from, to) = {} => Read(f, m, to) = Read(f, m, read)
           /\ Read(f, m, from) = {} => Span(f, m, from, to) = Read(f, m, to)
           /\ Read(f, m, to) # {} => Read(f, m, from) # {} \/ Span(f, m, from, to) # {}
           /\ Read(f, m, from) # {} => Read(f, m, read) # {}
           /\ Span(f, m, from, to) # {} => Read(f, m, to) # {}
           /\ Read(f, m, read) # {} => Read(f, m, to) # {}
  <1>1. \A i : i \in 1 .. to <=> i \in 1 .. from \/ i \in (from + 1) .. to
    OBVIOUS
  <1>2. \A i : /\ i \in 1 .. from => i \in 1 .. read
               /\ i \in 1 .. read => i \in 1 .. to
               /\ i \in 1 .. read => i \in 1 .. from \/ i \in (from + 1) .. to
    OBVIOUS
  <1> QED
    BY <1>1, <1>2 DEF Span, Read

LEMMA AppendedKeeps ==
    ASSUME ParseInvariant, NEW f \in Session, ParseAppended(f)
    PROVE  ParseInvariant'
  <1> USE DEF ParseInvariant
  <1> DEFINE old == section[f].calls
             from == section[f].offset
             read == section[f].read
             to == Readable(f)
             new == Calls(f, from, to, seenMsgIds)
             all == Merged(old, new)
             e == [size |-> size[f], offset |-> Complete(f), calls |-> all,
                   read |-> to, failed |-> FALSE]
  <1>1. /\ f \in changed /\ AgentTypes /\ to \in Nat /\ Complete(f) \in Nat
        /\ Complete(f) <= to /\ ReadableOf(size[f]) <= to
        /\ ~section[f].failed /\ Bounded(f, section[f]) /\ Exact(f, section[f])
    BY FileFacts DEF ParseAppended, Resumable, ScanTypes, Sound
  <1>2. /\ section' = [section EXCEPT ![f] = e] /\ changed' = changed \ {f}
        /\ UNCHANGED <<agents, saved, scanning, size>>
        /\ seenMsgIds' = seenMsgIds \cup Ids(new) \cup Ids(old)
    BY DEF ParseAppended, Store
  <1>3. \A c \in old : Span(f, c.id, from, to) = {}
    BY DEF ParseAppended, Straddles, Span, Ids
  <1>4. /\ \A m \in Message \ seenMsgIds : Span(f, m, from, to) # {} =>
               \E c \in new : c.id = m
        /\ \A c \in new : /\ c.id \in Message \ seenMsgIds
                          /\ Span(f, c.id, from, to) # {}
                          /\ c.first = Least(Span(f, c.id, from, to))
                          /\ c.last = Greatest(Span(f, c.id, from, to))
    BY NewCalls
  <1>5. /\ old \subseteq all
        /\ \A d \in new : \E c \in all :
               c.id = d.id /\ c.first = d.first /\ c.last = d.last
        /\ \A c \in all : c \in old \/ \E d \in new :
               c.id = d.id /\ c.first = d.first /\ c.last = d.last
    BY MergedCalls
  <1>6. /\ e.size = size[f] /\ e.offset = Complete(f) /\ e.calls = all
        /\ e.read = to /\ e.failed = FALSE
    OBVIOUS
  <1>7. /\ from \in Nat /\ read \in Nat /\ from <= read /\ read <= to
        /\ \A c \in old : c.id \in Message /\ Read(f, c.id, read) # {}
    BY <1>1 DEF Bounded
  <1> HIDE DEF old, from, read, to, new, all, e
  <1>8. Bounded(f, e)
    <2>1. \A c \in all : c.id \in Message /\ Read(f, c.id, to) # {}
      BY <1>1, <1>4, <1>5, <1>7, SpanMeetsRead
    <2> QED
      BY <1>1, <1>6, <2>1 DEF Bounded, to
  <1>9. Exact(f, e)
    <2> SUFFICES ASSUME NEW m \in Owned(f)
                 PROVE  /\ Read(f, m, to) # {} => \E c \in all : c.id = m
                        /\ \A c \in all : c.id = m => /\ c.first = Least(Read(f, m, to))
                                                      /\ c.last = Greatest(Read(f, m, to))
      BY <1>6 DEF Exact
    <2>1. m \in Message \ seenMsgIds
      BY <1>1, OwnedNotMet DEF Owned
    <2>2. /\ Read(f, m, read) # {} => \E c \in old : c.id = m
          /\ \A c \in old : c.id = m => /\ c.first = Least(Read(f, m, read))
                                        /\ c.last = Greatest(Read(f, m, read))
      BY <1>1 DEF Exact, old, read
    <2>3. Read(f, m, to) # {} => \E c \in all : c.id = m
      BY <1>1, <1>4, <1>5, <1>7, <2>1, <2>2, SpanMeetsRead
    <2>4. ASSUME NEW c \in old, c.id = m
          PROVE  c.first = Least(Read(f, m, to)) /\ c.last = Greatest(Read(f, m, to))
      <3>1. Read(f, m, to) = Read(f, m, read)
        BY <1>1, <1>3, <1>7, <2>4, SpanMeetsRead
      <3> QED
        BY <2>2, <2>4, <3>1
    <2>5. ASSUME NEW c \in new, c.id = m
          PROVE  c.first = Least(Read(f, m, to)) /\ c.last = Greatest(Read(f, m, to))
      <3>1. Read(f, m, read) = {}
        BY <1>3, <1>4, <2>2, <2>5
      <3>2. Span(f, m, from, to) = Read(f, m, to)
        BY <1>1, <1>7, <3>1, SpanMeetsRead
      <3> QED
        BY <1>4, <2>5, <3>2
    <2> QED
      BY <1>5, <2>3, <2>4, <2>5
  <1>10. ASSUME NEW m \in Message, Read(f, m, to) # {}
         PROVE  \/ m \in seenMsgIds \/ Counts(e, f, m)
                \/ \E h \in Session \ {f} : Counts(section[h], h, m)
    <2>1. CASE Span(f, m, from, to) # {}
      BY <1>4, <1>5, <1>6, <2>1 DEF Counts
    <2>2. CASE Span(f, m, from, to) = {}
      <3>1. Read(f, m, read) # {}
        BY <1>1, <1>7, <1>10, <2>2, SpanMeetsRead
      <3>2. PICK h \in Session : Counts(section[h], h, m)
        BY <3>1 DEF Sound, Covers, read
      <3>3. CASE h = f
        BY <1>1, <1>5, <1>6, <3>2, <3>3 DEF Counts, old
      <3> QED
        BY <3>2, <3>3
    <2> QED
      BY <2>1, <2>2
  <1>11. \A m \in seenMsgIds' : m \in seenMsgIds \/ (m \in Message /\ Counts(e, f, m))
    BY <1>2, <1>4, <1>5, <1>6, <1>7 DEF Ids, Counts
  <1> QED
    BY <1>1, <1>2, <1>8, <1>9, <1>10, <1>11, NewEntry DEF Met, to

-----------------------------------------------------------------------------
(* The other steps *)

\* Files only grow: what was read of them stays, and fewer messages are in one file.
LEMMA GrowingKeeps ==
    ASSUME ParseInvariant, AgentTypes',
           UNCHANGED <<saved, section, scanning, changed, size, seenMsgIds>>,
           \A f \in Session :
               /\ Len(lines[f]) <= Len(lines[f])' /\ Readable(f) <= Readable(f)'
               /\ \A i \in 1 .. Len(lines[f]) : lines'[f][i] = lines[f][i]
    PROVE  ParseInvariant'
  <1> USE DEF ParseInvariant
  <1>1. \A f \in Session : /\ Len(lines[f]) \in Nat /\ Len(lines'[f]) \in Nat
                           /\ Readable(f) \in Nat /\ Readable(f)' \in Nat
                           /\ Readable(f) <= Len(lines[f])
                           /\ DOMAIN lines[f] = 1 .. Len(lines[f])
                           /\ DOMAIN lines'[f] = 1 .. Len(lines'[f])
    <2> TAKE f \in Session
    <2>1. lines[f] \in Seq(Line) /\ lines'[f] \in Seq(Line)
      BY DEF AgentTypes
    <2>2. Readable(f) \in Nat /\ Readable(f) <= Len(lines[f])
      BY FileFacts
    <2>3. Readable(f)' \in Nat
      BY <2>1 DEF AgentTypes, Readable, Ending
    <2> QED
      BY <2>1, <2>2, <2>3
  <1>2. \A f \in Session : \A m : \A n \in Nat :
            n <= Readable(f) => Read(f, m, n)' = Read(f, m, n)
    <2> SUFFICES ASSUME NEW f \in Session, NEW m, NEW n \in Nat, n <= Readable(f)
                 PROVE  Read(f, m, n)' = Read(f, m, n)
      OBVIOUS
    <2>1. \A i \in 1 .. n : i \in 1 .. Len(lines[f])
      BY <1>1
    <2> QED
      BY <2>1 DEF Read
  <1>3. \A f \in Session : Owned(f)' \subseteq Owned(f)
    <2>1. ASSUME NEW f \in Session, NEW i \in DOMAIN lines[f]
          PROVE  i \in DOMAIN lines'[f] /\ lines'[f][i] = lines[f][i]
      BY <1>1
    <2>2. \A f \in Session : Lines(f) \subseteq Lines(f)'
      BY <2>1 DEF Lines
    <2> QED
      BY <2>2 DEF Owned
  <1>4. \A f \in Session : \A m : Read(f, m, Readable(f)) # {} => Read(f, m, Readable(f))' # {}
    <2> SUFFICES ASSUME NEW f \in Session, NEW m, NEW i \in Read(f, m, Readable(f))
                 PROVE  i \in Read(f, m, Readable(f))'
      OBVIOUS
    <2>1. i \in 1 .. Readable(f) /\ lines[f][i] = m
      BY DEF Read
    <2>2. i \in 1 .. Readable(f)' /\ lines'[f][i] = m
      BY <1>1, <2>1
    <2> QED
      BY <2>2 DEF Read
  <1>5. Sound(saved)'
    <2>1. ASSUME NEW g \in Session PROVE Bounded(g, saved[g])'
      <3>1. Bounded(g, saved[g]) /\ saved' = saved
        BY DEF Sound
      <3>2. saved[g].read <= Readable(g)'
        BY <1>1, <3>1 DEF Bounded
      <3> QED
        BY <1>2, <3>1, <3>2 DEF Bounded
    <2>2. ASSUME NEW g \in Session PROVE Exact(g, saved[g])'
      <3>1. Bounded(g, saved[g]) /\ Exact(g, saved[g]) /\ saved' = saved
        BY DEF Sound
      <3>2. \A m : Read(g, m, saved[g].read)' = Read(g, m, saved[g].read)
        BY <1>2, <3>1 DEF Bounded
      <3> QED
        BY <1>3, <3>1, <3>2 DEF Exact
    <2>3. Covers(saved)'
      <3> SUFFICES ASSUME NEW f \in Session, NEW m \in Message, Read(f, m, saved[f].read)' # {}
                   PROVE  \E h \in Session : Counts(saved[h], h, m)'
        BY DEF Covers
      <3>1. Read(f, m, saved[f].read) # {}
        BY <1>2 DEF Sound, Bounded
      <3>2. PICK h \in Session : Counts(saved[h], h, m)
        BY <3>1 DEF Sound, Covers
      <3> QED
        BY <1>4, <3>2 DEF Counts
    <2> QED
      BY <2>1, <2>2, <2>3 DEF Sound
  <1>6. Sound(section)'
    <2>1. ASSUME NEW g \in Session PROVE Bounded(g, section[g])'
      <3>1. Bounded(g, section[g]) /\ section' = section
        BY DEF Sound
      <3>2. section[g].read <= Readable(g)'
        BY <1>1, <3>1 DEF Bounded
      <3> QED
        BY <1>2, <3>1, <3>2 DEF Bounded
    <2>2. ASSUME NEW g \in Session PROVE Exact(g, section[g])'
      <3>1. Bounded(g, section[g]) /\ Exact(g, section[g]) /\ section' = section
        BY DEF Sound
      <3>2. \A m : Read(g, m, section[g].read)' = Read(g, m, section[g].read)
        BY <1>2, <3>1 DEF Bounded
      <3> QED
        BY <1>3, <3>1, <3>2 DEF Exact
    <2>3. Covers(section)'
      <3> SUFFICES ASSUME NEW f \in Session, NEW m \in Message, Read(f, m, section[f].read)' # {}
                   PROVE  \E h \in Session : Counts(section[h], h, m)'
        BY DEF Covers
      <3>1. Read(f, m, section[f].read) # {}
        BY <1>2 DEF Sound, Bounded
      <3>2. PICK h \in Session : Counts(section[h], h, m)
        BY <3>1 DEF Sound, Covers
      <3> QED
        BY <1>4, <3>2 DEF Counts
    <2> QED
      BY <2>1, <2>2, <2>3 DEF Sound
  <1>7. Met'
    <2> SUFFICES ASSUME NEW m \in seenMsgIds
                 PROVE  \E h \in Session \ changed : Counts(section[h], h, m)'
      BY DEF Met
    <2>1. PICK h \in Session \ changed : Counts(section[h], h, m)
      BY DEF Met
    <2> QED
      BY <1>4, <2>1 DEF Counts
  <1>8. ScanTypes'
    <2>1. ASSUME NEW f \in Session PROVE ReadableOf(size[f]) <= Readable(f)'
      <3>1. /\ ReadableOf(size[f]) \in Nat /\ ReadableOf(size[f]) <= Readable(f)
            /\ Readable(f) <= Readable(f)'
        BY DEF ScanTypes
      <3> QED
        BY <1>1, <3>1
    <2> QED
      BY <2>1 DEF ScanTypes
  <1> QED
    BY <1>5, <1>6, <1>7, <1>8

LEMMA AgentKeeps ==
    ASSUME ParseInvariant, NEW f \in Session,
           AppendLine(f) \/ FinishLine(f) \/ \E g \in Session : Fork(f, g)
    PROVE  ParseInvariant'
  <1>1. /\ lines \in [Session -> Seq(Line)] /\ ending \in [Session -> Ending]
        /\ \A h \in Session : ending[h] # "newline" => Len(lines[h]) >= 1
        /\ \A h \in Session : lines[h] \in Seq(Line) /\ Len(lines[h]) \in Nat
        /\ UNCHANGED <<saved, section, scanning, changed, size, seenMsgIds>>
    BY DEF ParseInvariant, AgentTypes, AppendLine, FinishLine, Fork
  <1>2. CASE AppendLine(f)
    <2>1. PICK line \in {User} \cup Lines(f) \cup (Message \ UNION {Lines(g) : g \in Session}) :
              lines' = [lines EXCEPT ![f] = Append(@, line)]
      BY <1>2 DEF AppendLine
    <2>2. line \in Line
      <3>1. \A i \in DOMAIN lines[f] : lines[f][i] \in Line
        BY <1>1
      <3> QED
        BY <2>1, <3>1 DEF Lines, Line
    <2>3. PICK how \in Ending : ending' = [ending EXCEPT ![f] = how]
      BY <1>2 DEF AppendLine
    <2>4. \A h \in Session : IF h = f THEN /\ lines'[h] = Append(lines[h], line)
                                           /\ ending'[h] = how
                             ELSE lines'[h] = lines[h] /\ ending'[h] = ending[h]
      BY <1>1, <2>1, <2>3
    <2>5. /\ Append(lines[f], line) \in Seq(Line)
          /\ Len(Append(lines[f], line)) = Len(lines[f]) + 1
          /\ \A i \in 1 .. Len(lines[f]) : Append(lines[f], line)[i] = lines[f][i]
      BY <1>1, <2>2
    <2>6. AgentTypes'
      BY <1>1, <2>1, <2>3, <2>4, <2>5 DEF AgentTypes
    <2>7. ending[f] = "newline"
      BY <1>2 DEF AppendLine
    <2>8. ASSUME NEW h \in Session
          PROVE  /\ Len(lines[h]) <= Len(lines[h])' /\ Readable(h) <= Readable(h)'
                 /\ \A i \in 1 .. Len(lines[h]) : lines'[h][i] = lines[h][i]
      BY <1>1, <2>4, <2>5, <2>7 DEF Readable
    <2> QED
      BY <1>1, <2>6, <2>8, GrowingKeeps
  <1>3. CASE FinishLine(f)
    <2>1. lines' = lines /\ ending' = [ending EXCEPT ![f] = "newline"]
      BY <1>3 DEF FinishLine
    <2>2. AgentTypes'
      BY <1>1, <2>1 DEF AgentTypes, Ending
    <2>3. ASSUME NEW h \in Session
          PROVE  /\ Len(lines[h]) <= Len(lines[h])' /\ Readable(h) <= Readable(h)'
                 /\ \A i \in 1 .. Len(lines[h]) : lines'[h][i] = lines[h][i]
      BY <1>1, <2>1 DEF Readable
    <2> QED
      BY <1>1, <2>2, <2>3, GrowingKeeps
  <1>4. ASSUME NEW g \in Session, Fork(f, g)
        PROVE  ParseInvariant'
    <2>1. PICK n \in DOMAIN lines[f] : lines' = [lines EXCEPT ![g] = SubSeq(lines[f], 1, n)]
      BY <1>4 DEF Fork
    <2>2. lines[g] = <<>> /\ ending' = ending
      BY <1>4 DEF Fork
    <2>3. /\ n \in 1 .. Len(lines[f]) /\ n \in Nat /\ n >= 1 /\ SubSeq(lines[f], 1, n) \in Seq(Line)
          /\ Len(SubSeq(lines[f], 1, n)) = n
      BY <1>1, <2>1
    <2>4. /\ lines'[g] = SubSeq(lines[f], 1, n)
          /\ \A h \in Session \ {g} : lines'[h] = lines[h]
      BY <1>1, <2>1
    <2>5. AgentTypes'
      BY <1>1, <2>1, <2>2, <2>3, <2>4 DEF AgentTypes
    <2>6. Len(lines[g]) = 0 /\ ending[g] = "newline"
      BY <1>1, <2>2
    <2>7. ASSUME NEW h \in Session
          PROVE  /\ Len(lines[h]) <= Len(lines[h])' /\ Readable(h) <= Readable(h)'
                 /\ \A i \in 1 .. Len(lines[h]) : lines'[h][i] = lines[h][i]
      <3>1. CASE h = g
        <4>1. Len(lines'[h]) = n /\ n \in Nat /\ n >= 1
          BY <2>3, <2>4, <3>1
        <4>2. Len(lines[h]) = 0 /\ \A i \in 1 .. Len(lines[h]) : FALSE
          BY <2>6, <3>1
        <4>3. Readable(h) <= Readable(h)'
          BY <2>2, <2>6, <3>1, <4>1 DEF Readable
        <4> QED
          BY <4>1, <4>2, <4>3
      <3>2. CASE h # g
        <4>1. lines'[h] = lines[h] /\ ending'[h] = ending[h] /\ Len(lines[h]) \in Nat
          BY <1>1, <2>2, <2>4, <3>2
        <4> QED
          BY <4>1 DEF Readable
      <3> QED
        BY <3>1, <3>2
    <2> QED
      BY <1>1, <2>5, <2>7, GrowingKeeps
  <1> QED
    BY <1>2, <1>3, <1>4

\* What the agents have written, and what is cached of it, stands while a scan does
\* something else.
LEMMA CacheStands ==
    ASSUME ParseInvariant, UNCHANGED agents,
           saved' = saved \/ saved' = section, section' = section \/ section' = saved
    PROVE  AgentTypes' /\ Sound(saved)' /\ Sound(section)'
  <1>1. lines' = lines /\ ending' = ending
    BY DEF agents
  <1>2. /\ \A g, m, n : Read(g, m, n)' = Read(g, m, n)
        /\ \A g : Readable(g)' = Readable(g)
        /\ \A g : Owned(g)' = Owned(g)
    BY <1>1 DEF Read, Readable, Lines, Owned
  <1>3. AgentTypes'
    BY <1>1 DEF ParseInvariant, AgentTypes
  <1>4. Sound(saved)'
    <2>1. ASSUME NEW g \in Session PROVE Bounded(g, saved[g])'
      BY <1>2 DEF ParseInvariant, Sound, Bounded
    <2>2. ASSUME NEW g \in Session PROVE Exact(g, saved[g])'
      BY <1>2 DEF ParseInvariant, Sound, Exact
    <2>3. Covers(saved)'
      BY <1>2 DEF ParseInvariant, Sound, Covers, Counts
    <2>4. saved' = [g \in Session |-> saved'[g]]
      BY DEF ParseInvariant, Sound
    <2> QED
      BY <2>1, <2>2, <2>3, <2>4 DEF Sound
  <1>5. Sound(section)'
    <2>1. ASSUME NEW g \in Session PROVE Bounded(g, section[g])'
      BY <1>2 DEF ParseInvariant, Sound, Bounded
    <2>2. ASSUME NEW g \in Session PROVE Exact(g, section[g])'
      BY <1>2 DEF ParseInvariant, Sound, Exact
    <2>3. Covers(section)'
      BY <1>2 DEF ParseInvariant, Sound, Covers, Counts
    <2>4. section' = [g \in Session |-> section'[g]]
      BY DEF ParseInvariant, Sound
    <2> QED
      BY <2>1, <2>2, <2>3, <2>4 DEF Sound
  <1> QED
    BY <1>3, <1>4, <1>5

LEMMA DiscoverKeeps ==
    ASSUME ParseInvariant, Discover
    PROVE  ParseInvariant'
  <1>1. /\ AgentTypes /\ UNCHANGED <<agents, saved, section>> /\ section = saved
        /\ lines' = lines /\ ending' = ending /\ scanning' = TRUE
        /\ changed' = Existing \ Unchanged /\ Unchanged \subseteq Existing
        /\ Existing \subseteq Session
        /\ size' = [f \in Session |-> IF f \in changed' THEN Size(f) ELSE Unparsed.size]
        /\ seenMsgIds' = UNION {Ids(saved[f].calls) : f \in Unchanged}
    BY DEF ParseInvariant, ScanTypes, Discover, agents, Existing, Unchanged
  <1>2. AgentTypes' /\ Sound(saved)' /\ Sound(section)'
    BY <1>1, CacheStands
  <1>3. Met'
    <2> SUFFICES ASSUME NEW m \in seenMsgIds'
                 PROVE  /\ m \in Message
                        /\ \E h \in Session \ changed' : Counts(section[h], h, m)'
      BY DEF Met
    <2>1. PICK f \in Unchanged : m \in Ids(saved[f].calls)
      BY <1>1
    <2>2. PICK c \in saved[f].calls : c.id = m
      BY <2>1 DEF Ids
    <2>3. m \in Message
      BY <1>1, <2>2 DEF ParseInvariant, Sound, Bounded
    <2>4. f \in Session \ changed' /\ c \in section'[f].calls
      BY <1>1, <2>2
    <2> QED
      BY <2>2, <2>3, <2>4 DEF Counts
  <1>4. ScanTypes'
    <2>1. ASSUME NEW f \in Session
          PROVE  ReadableOf(size'[f]) \in Nat /\ ReadableOf(size'[f]) <= Readable(f)'
      <3>1. /\ Readable(f)' = Readable(f) /\ Readable(f) \in Nat
            /\ ReadableOf(Size(f)) = Readable(f)
        BY <1>1, FileFacts DEF Readable
      <3>2. ReadableOf(Unparsed.size) = 0
        BY DEF ReadableOf, Unparsed
      <3> QED
        BY <1>1, <3>1, <3>2
    <2> QED
      BY <1>1, <2>1 DEF ScanTypes
  <1> QED
    BY <1>2, <1>3, <1>4 DEF ParseInvariant

LEMMA SaveKeeps ==
    ASSUME ParseInvariant, SaveProgress
    PROVE  ParseInvariant'
  <1>1. /\ UNCHANGED <<agents, section, scanning, changed, size, seenMsgIds>>
        /\ lines' = lines /\ ending' = ending /\ saved' = section /\ scanning
    BY DEF SaveProgress, agents
  <1>2. AgentTypes' /\ Sound(saved)' /\ Sound(section)'
    BY <1>1, CacheStands
  <1>3. Met'
    BY <1>1 DEF ParseInvariant, Met, Counts, Read, Readable
  <1>4. ScanTypes'
    BY <1>1 DEF ParseInvariant, ScanTypes, Readable
  <1> QED
    BY <1>2, <1>3, <1>4 DEF ParseInvariant

LEMMA EndKeeps ==
    ASSUME ParseInvariant, FinishScan \/ ScanDies
    PROVE  ParseInvariant'
  <1>1. /\ UNCHANGED agents /\ lines' = lines /\ ending' = ending /\ EndScan
        /\ saved' = saved \/ saved' = section
        /\ section' = section \/ section' = saved
        /\ section' = saved'
    BY DEF FinishScan, ScanDies, agents
  <1>2. AgentTypes' /\ Sound(saved)' /\ Sound(section)'
    BY <1>1, CacheStands
  <1>3. Met'
    BY <1>1 DEF Met, EndScan
  <1>4. ScanTypes'
    <2>1. ReadableOf(Unparsed.size) = 0
      BY DEF ReadableOf, Unparsed
    <2>2. \A f \in Session : Readable(f) \in Nat /\ Readable(f)' = Readable(f)
      BY <1>1, FileFacts DEF ParseInvariant, Readable
    <2> QED
      BY <1>1, <2>1, <2>2 DEF ScanTypes, EndScan
  <1> QED
    BY <1>2, <1>3, <1>4 DEF ParseInvariant

LEMMA ParseStutterKeeps ==
    ASSUME ParseInvariant, UNCHANGED parseVars
    PROVE  ParseInvariant'
  <1>1. /\ UNCHANGED agents /\ lines' = lines /\ ending' = ending /\ saved' = saved
        /\ section' = section /\ scanning' = scanning /\ changed' = changed
        /\ size' = size /\ seenMsgIds' = seenMsgIds
    BY DEF parseVars, agents
  <1>2. AgentTypes' /\ Sound(saved)' /\ Sound(section)'
    BY <1>1, CacheStands
  <1>3. Met'
    BY <1>1 DEF ParseInvariant, Met, Counts, Read, Readable
  <1>4. ScanTypes'
    BY <1>1 DEF ParseInvariant, ScanTypes, Readable
  <1> QED
    BY <1>2, <1>3, <1>4 DEF ParseInvariant

LEMMA ParseInvariantInit ==
    ASSUME ParseInit
    PROVE  ParseInvariant
  <1>1. AgentTypes
    BY DEF ParseInit, AgentTypes, Ending
  <1>2. \A f \in Session : Len(lines[f]) = 0 /\ Readable(f) = 0
    BY DEF ParseInit, Readable
  <1>3. /\ Unparsed.size = <<0, "newline">> /\ Unparsed.offset = 0 /\ Unparsed.calls = {}
        /\ Unparsed.read = 0 /\ Unparsed.failed = FALSE /\ ReadableOf(Unparsed.size) = 0
    BY DEF Unparsed, ReadableOf
  <1>4. \A f, m : Read(f, m, 0) = {}
    BY DEF Read
  <1>5. /\ saved = [f \in Session |-> Unparsed] /\ section = saved
        /\ \A f \in Session : saved[f] = Unparsed /\ size[f] = Unparsed.size
        /\ ~scanning /\ changed = {} /\ seenMsgIds = {}
    BY DEF ParseInit
  <1>6. \A f \in Session : Bounded(f, saved[f])
    BY <1>2, <1>3, <1>5 DEF Bounded
  <1>7. \A f \in Session : Exact(f, saved[f])
    BY <1>3, <1>4, <1>5 DEF Exact
  <1>8. Covers(saved)
    BY <1>3, <1>4, <1>5 DEF Covers
  <1>9. Sound(saved) /\ Sound(section)
    BY <1>5, <1>6, <1>7, <1>8 DEF Sound
  <1>10. Met /\ ScanTypes
    BY <1>2, <1>3, <1>5 DEF Met, ScanTypes
  <1> QED
    BY <1>1, <1>9, <1>10 DEF ParseInvariant

LEMMA ParseInvariantAlways == ParseSpec => []ParseInvariant
  <1>1. ParseInvariant /\ [ParseNext]_parseVars => ParseInvariant'
    <2> SUFFICES ASSUME ParseInvariant, [ParseNext]_parseVars PROVE ParseInvariant'
      OBVIOUS
    <2>1. CASE UNCHANGED parseVars
      BY <2>1, ParseStutterKeeps
    <2>2. CASE ParseNext
      BY <2>2, AgentKeeps, AppendedKeeps, FullKeeps, FailsKeeps, DiscoverKeeps, SaveKeeps,
         EndKeeps DEF ParseNext
    <2> QED
      BY <2>1, <2>2
  <1> QED
    BY <1>1, ParseInvariantInit, PTL DEF ParseSpec

-----------------------------------------------------------------------------
(* Theorems *)

\* Resuming changes no figure: of the messages that only one file names, the cache of
\* a file that did not fail holds the calls that a full parse of the lines it read
\* makes, with the same first and last line, however lines were cut, restated or
\* appended between the scans, and in whatever order scans saved, failed or died
\* (parser.ts:2017).
THEOREM ResumingIsExact == ParseSpec => []CallsAsFullParse
  <1>1. ParseInvariant => CallsAsFullParse
    <2> SUFFICES ASSUME ParseInvariant, NEW f \in Session, ~saved[f].failed
                 PROVE  {<<c.id, c.first, c.last>> : c \in Own(f, saved[f].calls)} =
                            {<<c.id, c.first, c.last>> : c \in Full(f)}
      BY DEF CallsAsFullParse
    <2> DEFINE read == saved[f].read
               once == Calls(f, 0, read, {})
    <2>1. /\ read \in Nat /\ Exact(f, saved[f])
          /\ \A c \in saved[f].calls : c.id \in Message /\ Read(f, c.id, read) # {}
      BY DEF ParseInvariant, Sound, Bounded
    <2>2. /\ \A m \in Message : Read(f, m, read) # {} => \E c \in once : c.id = m
          /\ \A c \in once : /\ c.id \in Message /\ Read(f, c.id, read) # {}
                             /\ c.first = Least(Read(f, c.id, read))
                             /\ c.last = Greatest(Read(f, c.id, read))
      BY <2>1, NewCalls, ReadIsSpan
    <2>3. /\ \A m \in Owned(f) : Read(f, m, read) # {} => \E c \in saved[f].calls : c.id = m
          /\ \A c \in saved[f].calls : c.id \in Owned(f) =>
                 /\ c.first = Least(Read(f, c.id, read))
                 /\ c.last = Greatest(Read(f, c.id, read))
      BY <2>1 DEF Exact
    <2>4. /\ Full(f) = {c \in once : c.id \notin UNION {Lines(g) : g \in Session \ {f}}}
          /\ Own(f, saved[f].calls) =
                 {c \in saved[f].calls : c.id \notin UNION {Lines(g) : g \in Session \ {f}}}
      BY DEF Full, Own
    <2> HIDE DEF read, once
    <2>5. /\ \A c \in Full(f) : c \in once /\ c.id \in Owned(f)
          /\ \A c \in once : c.id \in Owned(f) => c \in Full(f)
          /\ \A c \in Own(f, saved[f].calls) : c \in saved[f].calls /\ c.id \in Owned(f)
          /\ \A c \in saved[f].calls : c.id \in Owned(f) => c \in Own(f, saved[f].calls)
      BY <2>1, <2>2, <2>4 DEF Owned
    <2>6. ASSUME NEW c \in Own(f, saved[f].calls)
          PROVE  \E d \in Full(f) : d.id = c.id /\ d.first = c.first /\ d.last = c.last
      BY <2>1, <2>2, <2>3, <2>5
    <2>7. ASSUME NEW d \in Full(f)
          PROVE  \E c \in Own(f, saved[f].calls) :
                     d.id = c.id /\ d.first = c.first /\ d.last = c.last
      BY <2>1, <2>2, <2>3, <2>5
    <2> QED
      BY <2>6, <2>7
  <1> QED
    BY <1>1, ParseInvariantAlways, PTL

\* No message is lost to another file: once no entry is a failed one, whatever an
\* unchanged file names is counted in some file, although copies are dropped from all
\* but one and scans died or failed on the way (seenMsgIds of scanProjectDirs).
THEOREM CopiesAreCounted == ParseSpec => []EveryCallKept
  <1>1. ParseInvariant => EveryCallKept
    <2> SUFFICES ASSUME ParseInvariant, \A f \in Session : ~saved[f].failed,
                        NEW f \in Unchanged, NEW i \in Position,
                        1 <= i, i <= Readable(f), lines[f][i] # User
                 PROVE  \E g \in Session : lines[f][i] \in Ids(saved[g].calls)
      BY DEF EveryCallKept
    <2>1. f \in Session /\ saved[f].size = Size(f)
      BY DEF Unchanged, Existing
    <2>2. /\ AgentTypes /\ saved[f].read \in Nat /\ ~saved[f].failed
          /\ ReadableOf(saved[f].size) <= saved[f].read
      BY <2>1 DEF ParseInvariant, Sound, Bounded
    <2>3. /\ Readable(f) \in Nat /\ Readable(f) <= Len(lines[f]) /\ i \in Nat
          /\ lines[f] \in Seq(Line) /\ Len(lines[f]) \in Nat
          /\ Readable(f) <= saved[f].read
      BY <2>1, <2>2, FileFacts DEF Position
    <2>4. lines[f][i] \in Message
      <3>1. i \in 1 .. Len(lines[f])
        BY <2>3
      <3> QED
        BY <2>3, <3>1 DEF Line
    <2>5. Read(f, lines[f][i], saved[f].read) # {}
      <3>1. i \in 1 .. saved[f].read
        BY <2>2, <2>3
      <3> QED
        BY <3>1 DEF Read
    <2> DEFINE m == lines[f][i]
    <2>6. PICK h \in Session : Counts(saved[h], h, m)
      BY <2>1, <2>4, <2>5 DEF ParseInvariant, Sound, Covers
    <2> QED
      BY <2>6 DEF Counts, Ids
  <1> QED
    BY <1>1, ParseInvariantAlways, PTL

\* The lock and the scan of the session cache share no variable in the run, whose
\* behaviours are those of either: what is proved of one holds in it.
THEOREM CacheIsLockAndScan == CacheSpec => LockSpec /\ ParseSpec
  <1>1. CacheInit => LockInit /\ ParseInit
    BY DEF CacheInit
  <1>2. [CacheNext]_<<focus, lockVars, parseVars>> =>
            [LockNext]_lockVars /\ [ParseNext]_parseVars
    BY DEF CacheNext, Locks, Scans
  <1> QED
    BY <1>1, <1>2, PTL DEF CacheSpec, LockSpec, ParseSpec
=============================================================================
