------------------------------ MODULE Settings ------------------------------
(***************************************************************************)
(* The settings that open the unlimited period and the promotional period, *)
(* one row of system_settings each.  An edit writes several rows at once,  *)
(* each by a statement of its own; a read that finds a value only under    *)
(* its legacy key moves it to the new one.  Reads happen in any request.   *)
(***************************************************************************)
EXTENDS Integers, FiniteSets

CONSTANTS
    Connection,     \* requests that run at once
    Date,           \* days that a period may start or end on, positive
    Percent,        \* discounts
    MaxEdits        \* bound: edits by administrators

VARIABLES
    settings,   \* the value of each key, or None
    task,       \* what each connection is in the middle of
    edits       \* edits so far

vars == <<settings, task, edits>>

None == -1

Period == {"unlimited", "promotional"}

\* The key of each part of a period.
KeyOf == [unlimited |-> [start |-> "unlimited_start", end |-> "unlimited_end"],
          promotional |-> [start |-> "promotional_start", end |-> "promotional_end",
                           percent |-> "promotional_percent"]]

\* The part of a period that older versions kept under another key.
Legacy == [unlimited |-> [part |-> "end", key |-> "free_period_end"],
           promotional |-> [part |-> "percent", key |-> "early_adopter_discount"]]

Keys == UNION {{KeyOf[p][part] : part \in DOMAIN KeyOf[p]} \cup {Legacy[p].key} : p \in Period}

\* The discount when none is set.
Default == [start |-> None, end |-> None, percent |-> 20]

Idle == [op |-> "none"]

TypeOK ==
    /\ settings \in [Keys -> Date \cup Percent \cup {None}]
    /\ \A c \in Connection : task[c].op \in {"none", "edit", "move"}
    /\ edits \in 0..MaxEdits

\* What a read of a period returns: a part is taken from its key, or else from
\* its legacy key, or else it is the default.
Read(values, p) ==
    [part \in DOMAIN KeyOf[p] |->
        IF values[KeyOf[p][part]] # None THEN values[KeyOf[p][part]]
        ELSE IF part = Legacy[p].part /\ values[Legacy[p].key] # None THEN values[Legacy[p].key]
        ELSE Default[part]]

\* isActive
IsOpen(values, p, now) ==
    LET period == Read(values, p)
    IN  /\ period.end # None /\ now < period.end
        /\ IF p = "unlimited" THEN period.start = None \/ now >= period.start
           ELSE period.start # None /\ now >= period.start /\ period.percent > 0
-----------------------------------------------------------------------------
Does(c, t) == task' = [task EXCEPT ![c] = t]

\* c begins to write period p: the edits of p that are under way are disturbed.
Disturbing(c, p, t) ==
    task' = [d \in Connection |->
                IF d = c THEN t
                ELSE IF task[d].op = "edit" /\ task[d].period = p
                     THEN [task[d] EXCEPT !.clean = FALSE]
                ELSE task[d]]

Busy(p) == \E d \in Connection : task[d] # Idle /\ task[d].period = p

Dates == {[start |-> None, end |-> None]}
            \cup {d \in [start : Date, end : Date] : d.start < d.end}

\* What an administrator may ask for: a period, none, or by the deprecated
\* route the part alone that once had another key.
Asked(p) ==
    LET whole == IF p = "unlimited" THEN Dates
                 ELSE {[start |-> d.start, end |-> d.end, percent |-> x] : d \in Dates, x \in Percent}
    IN  whole \cup (IF p = "unlimited" THEN [end : Date] ELSE [percent : Percent])

\* The rows that an edit writes: one that names a whole period drops the legacy key.
Writes(p, asked) ==
    {[key |-> KeyOf[p][part], value |-> asked[part]] : part \in DOMAIN asked}
        \cup (IF "start" \in DOMAIN asked THEN {[key |-> Legacy[p].key, value |-> None]} ELSE {})

BeginEdit(c, p, asked) ==
    /\ task[c] = Idle
    /\ edits < MaxEdits
    /\ edits' = edits + 1
    /\ Disturbing(c, p, [op |-> "edit", period |-> p, asked |-> asked, clean |-> ~Busy(p),
                         todo |-> Writes(p, asked)])
    /\ UNCHANGED settings

\* Promise.all: the writes land in any order.
WriteOne(c, write) ==
    LET rest == task[c].todo \ {write}
    IN  /\ settings' = [settings EXCEPT ![write.key] = write.value]
        /\ Does(c, IF rest = {} THEN Idle ELSE [task[c] EXCEPT !.todo = rest])
        /\ UNCHANGED edits

\* A write fails: the others land all the same.
WriteFails(c, write) ==
    LET rest == task[c].todo \ {write}
    IN  /\ Does(c, IF rest = {} THEN Idle ELSE [task[c] EXCEPT !.todo = rest, !.clean = FALSE])
        /\ UNCHANGED <<settings, edits>>

\* A read of period p finds the part under its legacy key only ...
BeginMove(c, p) ==
    LET old == Legacy[p].key
    IN  /\ task[c] = Idle
        /\ settings[old] # None /\ settings[KeyOf[p][Legacy[p].part]] = None
        /\ Disturbing(c, p, [op |-> "move", period |-> p, value |-> settings[old], at |-> "set"])
        /\ UNCHANGED <<settings, edits>>

\* Mutant: the legacy key is dropped first.
DropFirst(c) ==
    IF task[c].at = "set" THEN [key |-> Legacy[task[c].period].key, value |-> None]
    ELSE [key |-> KeyOf[task[c].period][Legacy[task[c].period].part], value |-> task[c].value]

\* ... sets it under the new key, and then drops the legacy key.
NextOfMove(c) ==
    IF task[c].at = "set"
    THEN [key |-> KeyOf[task[c].period][Legacy[task[c].period].part], value |-> task[c].value]
    ELSE [key |-> Legacy[task[c].period].key, value |-> None]

Move(c) ==
    /\ task[c].op = "move"
    /\ settings' = [settings EXCEPT ![NextOfMove(c).key] = NextOfMove(c).value]
    /\ Does(c, IF task[c].at = "set" THEN [task[c] EXCEPT !.at = "drop"] ELSE Idle)
    /\ UNCHANGED edits
-----------------------------------------------------------------------------
\* Perhaps an older version left its keys.
Init ==
    /\ \E end \in Date \cup {None}, percent \in Percent \cup {None} :
          settings = [k \in Keys |-> CASE k = Legacy["unlimited"].key -> end
                                       [] k = Legacy["promotional"].key -> percent
                                       [] OTHER -> None]
    /\ task = [c \in Connection |-> Idle]
    /\ edits = 0

Next ==
    \E c \in Connection :
        \/ \E p \in Period : BeginMove(c, p) \/ \E asked \in Asked(p) : BeginEdit(c, p, asked)
        \/ /\ task[c].op = "edit"
           /\ \E write \in task[c].todo : WriteOne(c, write) \/ WriteFails(c, write)
        \/ Move(c)

Spec == Init /\ [][Next]_vars
-----------------------------------------------------------------------------
(* Properties *)

\* c lands the last write of its edit, none of which failed and which no other
\* edit and no moving read of the same period overlapped.
EndsCleanly(c) ==
    /\ task[c].op = "edit" /\ task[c].clean
    /\ \E write \in task[c].todo : task[c].todo = {write} /\ WriteOne(c, write)

\* An edit has written one of the two rows of a value since c began to move it.
Overtaken(c) ==
    LET old == Legacy[task[c].period]
        new == settings[KeyOf[task[c].period][old.part]]
    IN  IF task[c].at = "set" THEN new # None \/ settings[old.key] # task[c].value
        ELSE new # task[c].value

\* The period that c was asked for is what reads return after this step.
ReadsAsAsked(c) ==
    \A part \in DOMAIN task[c].asked :
        Read(settings', task[c].period)[part] = task[c].asked[part]

\* c moves a value and changes what reads of the period return.
MoveShows(c) == Move(c) /\ Read(settings', task[c].period) # Read(settings, task[c].period)

\* A clean edit leaves the period that was asked for, whatever older versions left
\* behind: every read returns it.  An edit that a mere read overlapped need not, for
\* the read may put back the end that it cleared.  A read that moves a value changes
\* what reads return only when an edit of the same period has overtaken it.
OnlyOverlapsMixSettings ==
    [][\A c \in Connection :
          /\ EndsCleanly(c) => ReadsAsAsked(c)
          /\ MoveShows(c) => Overtaken(c)]_vars
=============================================================================
