------------------------------ MODULE Manifest ------------------------------
(***************************************************************************)
(* cmd/dfsrmanifest with packages manifest and mfilter: the command that   *)
(* lists or summarises the conflict and deleted manifests of some paths.   *)
(*                                                                         *)
(* The processes are one run() for each path, which reads its manifest     *)
(* with a cursor, entry by entry, and sends lines to a buffered channel,   *)
(* and main, which prints the channels one after the other.  A resource is *)
(* what filters and statistics look at; a regular expression is the set of *)
(* the strings it matches; a line is what it tells, without its layout     *)
(* (list and dump differ in nothing else).  The file system does not       *)
(* change under the command.                                               *)
(***************************************************************************)
EXTENDS Naturals, Sequences, SequencesExt

CONSTANTS
    NumPaths,      \* the paths on the command line
    BufferSize,    \* bufferSize
    Files,         \* what a path may lead to
    OptionSets,    \* the options for the filter
    Modes,         \* the commands, with and without -s and -r
    Members,       \* the partners that the domain's configuration knows
    Resources,     \* the resources of the manifests
    DayLength,     \* the moments of a day
    Bad,           \* an element of a manifest that cannot be decoded
    Nil           \* an option that is not given; a nil filter

(* A day by name (today, yesterday) or by its date, both as some moment of it,
   or a moment. *)
Times == [kind : {"name", "date", "moment"}, time : Nat]

ASSUME ManifestAssumption ==
    /\ NumPaths \in Nat /\ BufferSize \in Nat \ {0} /\ DayLength \in Nat \ {0}
    /\ Files \subseteq [kind : {"missing", "unreadable", "manifest"},
                        entries : Seq(Resources \cup {Bad})]
    /\ \A o \in OptionSets :
          /\ o.when # Nil => o.after = Nil /\ o.before = Nil
          /\ {o.when, o.after, o.before} \subseteq Times \cup {Nil}
    /\ Modes \subseteq [list : BOOLEAN, summarize : BOOLEAN, resolve : BOOLEAN]
    /\ \A r \in Resources : r.time \in Nat /\ r.size \in Nat
    /\ Bad \notin Resources
    /\ \A f \in SUBSET Resources : f # Nil

VARIABLES
    files,         \* what each path leads to
    options,       \* the options for the filter
    mode,          \* the command
    task,          \* the run() of each path
    results,       \* the channel of each path
    current,       \* the path whose channel main prints
    printed        \* the output

inputs == <<files, options, mode>>
manifestVars == <<inputs, task, results, current, printed>>

Paths == 1 .. NumPaths

-----------------------------------------------------------------------------
(* Filters: Nil, for nil, or the set of the resources that match *)

Match(f, r) == f = Nil \/ r \in f

AnyOf(fs) == {r \in Resources : \E f \in fs : Match(f, r)}
AllOf(fs) == {r \in Resources : \A f \in fs : Match(f, r)}

And(filters) ==
    LET selected == filters \ {Nil} IN IF selected = {} THEN Nil ELSE AllOf(selected)
Or(filters) ==
    LET selected == filters \ {Nil} IN IF selected = {} THEN Nil ELSE AnyOf(selected)
Not(f) == {r \in Resources : ~Match(f, r)}

PathRegexp(re) == {r \in Resources : r.path \in re}
TypeRegexp(re) == {r \in Resources : r.type \in re}
After(t) == {r \in Resources : r.time > t}
Before(t) == {r \in Resources : r.time < t}

BeginningOfDay(t) == t - (t % DayLength)
EndOfDay(t) == BeginningOfDay(t) + DayLength - 1

(* now.Parse *)
NowParse(given) ==
    IF given.kind = "date" THEN BeginningOfDay(given.time) ELSE given.time

(* parseStart and parseEnd: only for a name does the end stay that of the day;
   whatever is parsed overwrites it. *)
ParseStart(given) ==
    IF given.kind = "name" THEN BeginningOfDay(given.time) ELSE NowParse(given)
ParseEnd(given) ==
    IF given.kind = "name" THEN EndOfDay(given.time) ELSE NowParse(given)
(* parseWhen: the same time, read as a start and as an end. *)
ParseWhen(given) == {After(ParseStart(given)), Before(ParseEnd(given))}

When(given, filters) == IF given THEN filters ELSE {}

(* parseFilter: the filters for the options that are given. *)
ParseFilter(o) ==
    And(UNION {
        When(o.include # {}, {Or({PathRegexp(re) : re \in o.include})}),
        When(o.exclude # {}, {And({Not(PathRegexp(re)) : re \in o.exclude})}),
        When(o.types # {}, {And({TypeRegexp(re) : re \in o.types})}),
        When(o.when # Nil, ParseWhen(o.when)),
        When(o.after # Nil, {After(ParseStart(o.after))}),
        When(o.before # Nil, {Before(ParseEnd(o.before))})})

-----------------------------------------------------------------------------
(* Statistics *)

StatsSet == [entries : Nat, size : Nat, first : Nat, last : Nat]
NoStats == [entries |-> 0, size |-> 0, first |-> 0, last |-> 0]

(* Stats.Add; the first entry replaces the zero times. *)
Add(s, r) ==
    [entries |-> s.entries + 1,
     size    |-> s.size + r.size,
     first   |-> IF s.entries = 0 \/ r.time < s.first THEN r.time ELSE s.first,
     last    |-> IF s.entries = 0 \/ r.time > s.last THEN r.time ELSE s.last]

-----------------------------------------------------------------------------
(* Lines *)

Line(what, of) == <<what, of>>
NotFound == Line("not found", Nil)
Failure == Line("error", Nil)
Header == Line("header", Nil)
Blank == Line("blank", Nil)
Info == Line("info", Nil)
(* The partner's host, if the resolver knows it, or else its GUID. *)
Entry(r) ==
    Line("entry", [of |-> r,
                   partner |-> IF mode.resolve /\ r.partner \in Members
                               THEN "host" ELSE "guid"])

-----------------------------------------------------------------------------
(* run() *)

NewTask == [at |-> "find", pos |-> 1, todo |-> <<>>, total |-> NoStats,
            filtered |-> NoStats]

ManifestInit ==
    /\ files \in [Paths -> Files]
    /\ options \in OptionSets
    /\ mode \in Modes
    /\ task = [p \in Paths |-> NewTask]
    /\ results = [p \in Paths |-> <<>>]
    /\ current = 1
    /\ printed = <<>>

(* What Printf is given. *)
Lines ==
    {NotFound, Failure, Header, Blank, Info}
    \cup {"entry"} \X [of : Resources, partner : {"host", "guid"}]
    \cup {"total", "matching"} \X StatsSet

TaskRecords ==
    [at : {"find", "load", "read", "summary", "close", "closed"}, pos : Nat,
     todo : Seq(Lines), total : StatsSet, filtered : StatsSet]

ManifestTypeOK ==
    /\ files \in [Paths -> Files] /\ options \in OptionSets /\ mode \in Modes
    /\ task \in [Paths -> TaskRecords]
    /\ \A p \in Paths : task[p].pos \in 1 .. Len(files[p].entries) + 1
    /\ results \in [Paths -> Seq(Lines)]
    /\ \A p \in Paths : Len(results[p]) <= BufferSize
    /\ current \in 1 .. NumPaths + 1
    /\ printed \in Seq(Lines)

Filter == ParseFilter(options)

(* run() reaches `at' when it has sent the lines. *)
Go(p, at, lines) == task' = [task EXCEPT ![p].at = at, ![p].todo = lines]

Proceeds(p, at) == task[p].at = at /\ task[p].todo = <<>>

(* manifest.Find *)
Find(p) ==
    /\ Proceeds(p, "find")
    /\ IF files[p].kind = "missing" THEN Go(p, "close", <<NotFound>>)
       ELSE Go(p, "load", <<Header>>)
    /\ UNCHANGED <<inputs, results, current, printed>>

(* manifest.BufferedFile *)
Load(p) ==
    /\ Proceeds(p, "load")
    /\ IF files[p].kind = "unreadable" THEN Go(p, "close", <<Failure>>)
       ELSE Go(p, "read", <<>>)
    /\ UNCHANGED <<inputs, results, current, printed>>

(* Decoder.Read returns the resource, or fails to decode its element. *)
Decodes(element) == element # Bad

(* Cursor.process, after the decoder has moved on. *)
Process(t, r) ==
    [t EXCEPT !.pos = @ + 1,
              !.total = Add(@, r),
              !.filtered = IF Match(Filter, r) THEN Add(@, r) ELSE @]

(* enumerate shows what Cursor.Read returns; Cursor.End returns nothing. *)
Shown(r) == IF mode.list /\ Match(Filter, r) THEN <<Entry(r)>> ELSE <<>>

(* One turn of the loop of Cursor.End, for a summary, or of Cursor.Read and
   enumerate, for a list. *)
Read(p) ==
    LET t == task[p]
        element == files[p].entries[t.pos]
    IN
    /\ Proceeds(p, "read")
    /\ t.pos <= Len(files[p].entries)
    /\ \/ ~Decodes(element) /\ Go(p, "close", <<Failure>>)
       \/ /\ Decodes(element)
          /\ task' = [task EXCEPT ![p] = [Process(t, element) EXCEPT !.todo = Shown(element)]]
    /\ UNCHANGED <<inputs, results, current, printed>>

(* io.EOF *)
End(p) ==
    /\ Proceeds(p, "read")
    /\ task[p].pos > Len(files[p].entries)
    /\ Go(p, "summary", <<>>)
    /\ UNCHANGED <<inputs, results, current, printed>>

StatsSwapped(p) == [filtered |-> task[p].total, total |-> task[p].filtered]
(* Cursor.Stats; what enumerate calls total and filtered, run() takes for
   filtered and total, as Cursor.Stats returned it. *)
Stats(p) == [filtered |-> task[p].filtered, total |-> task[p].total]

Summarize(p) ==
    /\ Proceeds(p, "summary")
    /\ Go(p, "close",
          IF ~mode.summarize THEN <<>>
          ELSE (IF mode.list /\ Stats(p).filtered.entries > 0 THEN <<Blank>> ELSE <<>>)
               \o <<Info, Line("total", Stats(p).total)>>
               \o (IF Filter # Nil THEN <<Line("matching", Stats(p).filtered)>>
                   ELSE <<>>))
    /\ UNCHANGED <<inputs, results, current, printed>>

HasRoom(p) == Len(results[p]) < BufferSize

(* Output.Printf *)
Send(p) ==
    /\ task[p].todo # <<>>
    /\ HasRoom(p)
    /\ results' = [results EXCEPT ![p] = Append(@, Head(task[p].todo))]
    /\ task' = [task EXCEPT ![p].todo = Tail(@)]
    /\ UNCHANGED <<inputs, current, printed>>

(* defer close(output) *)
Close(p) ==
    /\ Proceeds(p, "close")
    /\ Go(p, "closed", <<>>)
    /\ UNCHANGED <<inputs, results, current, printed>>

-----------------------------------------------------------------------------
(* main *)

(* for line := range results[i] *)
PrintLine ==
    /\ current <= NumPaths
    /\ results[current] # <<>>
    /\ printed' = Append(printed, Head(results[current]))
    /\ results' = [results EXCEPT ![current] = Tail(@)]
    /\ UNCHANGED <<inputs, task, current>>

WhenClosed(p) == task[p].at = "closed"
(* The channel is closed and drained. *)
Exhausted(p) == results[p] = <<>> /\ task[p].at = "closed"

NextPath ==
    /\ current <= NumPaths
    /\ Exhausted(current)
    /\ current' = current + 1
    /\ UNCHANGED <<inputs, task, results, printed>>

-----------------------------------------------------------------------------
Run(p) ==
    Find(p) \/ Load(p) \/ Read(p) \/ End(p) \/ Summarize(p) \/ Send(p) \/ Close(p)
Main == PrintLine \/ NextPath

ManifestNext == Main \/ \E p \in Paths : Run(p)

ManifestSpec == ManifestInit /\ [][ManifestNext]_manifestVars

(* The goroutines run. *)
FairManifestSpec ==
    /\ ManifestSpec
    /\ WF_manifestVars(Main)
    /\ \A p \in Paths : WF_manifestVars(Run(p))

-----------------------------------------------------------------------------
(* Properties *)

Day(t) == t \div DayLength
OpensDay(t) == t = Day(t) * DayLength
ClosesDay(t) == t + 1 = (Day(t) + 1) * DayLength

(* The times that the options let through, as the code has it and in terms of
   days: a day begins after its first moment; by name it ends before its last
   moment, by date with its first one.  The usage of the command says otherwise:
   -when gives the "day to include" (main.go 50) and -before an "end date" (49).
   The notes in time.go (15, 25) call the parsed time that replaces the day's
   beginning or end a mistake. *)
IsAfter(given, t) ==
    IF given.kind = "moment" THEN t > given.time
    ELSE Day(t) >= Day(given.time) /\ ~(Day(t) = Day(given.time) /\ OpensDay(t))
IsBefore(given, t) ==
    CASE given.kind = "moment" -> t < given.time
      [] given.kind = "date" -> Day(t) < Day(given.time)
      [] given.kind = "name" ->
            Day(t) <= Day(given.time) /\ ~(Day(t) = Day(given.time) /\ ClosesDay(t))
(* A date or a moment lets nothing through; a name leaves out the two ends. *)
IsWithin(given, t) ==
    /\ given.kind = "name"
    /\ Day(t) = Day(given.time)
    /\ ~OpensDay(t) /\ ~ClosesDay(t)

(* What the options say of a resource, one by one. *)
Selected(r) ==
    LET o == options IN
    /\ o.include # {} => \E re \in o.include : r.path \in re
    /\ ~\E re \in o.exclude : r.path \in re
    /\ \A re \in o.types : r.type \in re
    /\ o.after # Nil => IsAfter(o.after, r.time)
    /\ o.before # Nil => IsBefore(o.before, r.time)
    /\ o.when # Nil => IsWithin(o.when, r.time)

(* The elements that come before the first bad one. *)
Decoded(entries) ==
    LET bad == {i \in DOMAIN entries : entries[i] = Bad}
    IN  IF bad = {} THEN entries ELSE SubSeq(entries, 1, Min(bad) - 1)

(* The statistics of a sequence of resources, from the whole of it. *)
StatsOf(rs) ==
    LET times == {rs[i].time : i \in DOMAIN rs}
        size[n \in 0 .. Len(rs)] == IF n = 0 THEN 0 ELSE size[n - 1] + rs[n].size
    IN
    IF rs = <<>> THEN NoStats
    ELSE [entries |-> Len(rs), size |-> size[Len(rs)],
          first |-> Min(times), last |-> Max(times)]

(* The resources that are selected, in their order. *)
Matching(rs) ==
    FlattenSeq([i \in DOMAIN rs |-> IF Selected(rs[i]) THEN <<rs[i]>> ELSE <<>>])

(* What the command is to print of a manifest. *)
Report(entries) ==
    LET decoded == Decoded(entries)
        matching == Matching(decoded)
        listed == IF mode.list THEN [i \in DOMAIN matching |-> Entry(matching[i])] ELSE <<>>
        blank == IF listed # <<>> THEN <<Blank>> ELSE <<>>
        filtering == \/ options.include \cup options.exclude \cup options.types # {}
                     \/ {options.after, options.before, options.when} # {Nil}
        summary ==
            blank \o <<Info, Line("total", StatsOf(decoded))>>
                  \o IF filtering THEN <<Line("matching", StatsOf(matching))>> ELSE <<>>
    IN  listed \o (IF decoded # entries THEN <<Failure>>
                   ELSE IF mode.summarize THEN summary ELSE <<>>)

Expected ==
    FlattenSeq([p \in Paths |->
        CASE files[p].kind = "missing" -> <<NotFound>>
          [] files[p].kind = "unreadable" -> <<Header, Failure>>
          [] files[p].kind = "manifest" -> <<Header>> \o Report(files[p].entries)])

(* However the goroutines interleave and wait for each other's channels, what
   has been printed is the beginning of what is to be printed: path by path,
   the resources that the options select, in order, up to an element that
   cannot be decoded, and statistics that agree with the manifest as a whole,
   each under its own name. *)
PrintsInOrder == IsPrefix(printed, Expected)

(* The command ends, having printed everything, although each run() may fill
   its channel before main comes to it. *)
PrintsEverything == <>(current > NumPaths /\ printed = Expected)
=============================================================================
