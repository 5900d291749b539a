------------------------------- MODULE Limits -------------------------------
(***************************************************************************)
(* Rate limiting in the relay (tezca-relay, limits.rs, and the handlers of *)
(* api.rs that ask it): one map of windows keyed by source, one keyed by   *)
(* mailbox, each behind its own mutex, and the sweep that prunes them.     *)
(*                                                                         *)
(* Time is counted in ticks; a window's minute is Minute ticks long.  The  *)
(* wall clock that numbers the minutes and the monotonic clock that ages   *)
(* the entries are one clock.                                              *)
(***************************************************************************)
EXTENDS Integers, FiniteSets

CONSTANTS
  Source,      \* sources, by the hash of their address
  Mailbox,     \* mailbox ids
  Limit,       \* per class of request: admissions per minute
  MaxSources,  \* Config.limiter_max_sources
  MaxIdle,     \* Config.limiter_idle, in ticks
  Minute,      \* ticks in a minute
  MaxClock     \* bound: the last tick

\* The five classes: three counters per source, two per mailbox.
SourceClass == {"create", "put", "deposit"}
BoxClass    == {"box_deposit", "ws"}

ASSUME LimitsAssumption ==
  /\ Limit \in [SourceClass \cup BoxClass -> Nat]
  /\ MaxSources \in Nat /\ MaxClock \in Nat
  /\ Minute \in Nat \ {0}
  /\ MaxIdle \in Nat /\ MaxIdle >= Minute  \* ten minutes, not configurable

VARIABLES
  src,        \* SourceLimiter.map
  box,        \* BoxLimiter.map
  boxes,      \* mailboxes in the table
  passed,     \* requests between two mutexes: <<class, mailbox>>
  deleting,   \* DELETE handlers between the table and BoxLimiter.forget
  pruning,    \* the sweep: what it prunes next, with the instant it read
  clock,
  granted,    \* history: admissions of each source in the current minute
  grantedBox  \* history: the same per mailbox, since it was last forgotten

vars == <<src, box, boxes, passed, deleting, pruning, clock, granted, grantedBox>>

Absent    == [minute |-> -1, counts |-> << >>, touched |-> 0]
minute    == clock \div Minute
NoCount(C) == [c \in C |-> 0]
fresh(C)  == [minute |-> minute, counts |-> NoCount(C), touched |-> clock]
Tracked(map) == {k \in DOMAIN map : map[k] # Absent}

Init ==
  /\ src = [s \in Source |-> Absent]
  /\ box = [b \in Mailbox |-> Absent]
  /\ boxes = {}
  /\ passed = {}
  /\ deleting = {}
  /\ pruning = [map |-> "none", now |-> 0]
  /\ clock = 0
  /\ granted = [s \in Source |-> NoCount(SourceClass)]
  /\ grantedBox = [b \in Mailbox |-> NoCount(BoxClass)]

\* The counts of the history belong to the current minute.
Tick ==
  /\ clock < MaxClock
  /\ clock' = clock + 1
  /\ LET rollover == clock' \div Minute # minute
     IN  /\ granted' = IF rollover THEN [s \in Source |-> NoCount(SourceClass)]
                       ELSE granted
         /\ grantedBox' = IF rollover THEN [b \in Mailbox |-> NoCount(BoxClass)]
                          ELSE grantedBox
  /\ UNCHANGED <<src, box, boxes, passed, deleting, pruning>>

-----------------------------------------------------------------------------
(* The limiters *)

\* Window::admit: the window an entry is in, and whether it has room.
Current(w, C) == IF w.minute = minute THEN w ELSE fresh(C)

\* Mutant: the limit itself is still admitted once more.
Room_inclusive(w, c, C) == Current(w, C).counts[c] <= Limit[c]

Room(w, c, C) == Current(w, C).counts[c] < Limit[c]

Touched(w, c, C) ==
  [Current(w, C) EXCEPT !.touched = clock,
                        !.counts[c] = IF Room(w, c, C) THEN @ + 1 ELSE @]

\* Mutant: an entry outlives its minute, not its idle time.
Kept_minute(map, now) ==
  [k \in DOMAIN map |-> IF map[k].minute = now \div Minute THEN map[k] ELSE Absent]

\* retain: what was touched less than the idle time before `now`.
Kept(map, now) ==
  [k \in DOMAIN map |->
     IF map[k] # Absent /\ now - map[k].touched >= MaxIdle THEN Absent ELSE map[k]]

\* A newcomer to a full table has the idle entries dropped first.
MakeRoom(s) ==
  IF src[s] = Absent /\ Cardinality(Tracked(src)) >= MaxSources
  THEN Kept(src, clock) ELSE src

\* Mutant: the table is not checked again after idle entries were dropped.
Shed_never(s) == FALSE

\* Still full: the newcomer is shed.
Shed(s) ==
  src[s] = Absent /\ Cardinality(Tracked(MakeRoom(s))) >= MaxSources

\* SourceLimiter::admit, which asks nothing of the map when the limit is 0.
AdmitsSource(s, c) == Limit[c] > 0 /\ ~Shed(s) /\ Room(MakeRoom(s)[s], c, SourceClass)

admit_source(s, c) ==
  /\ src' = IF Limit[c] = 0 THEN src
            ELSE IF Shed(s) THEN MakeRoom(s)
            ELSE [MakeRoom(s) EXCEPT ![s] = Touched(@, c, SourceClass)]
  /\ granted' = IF AdmitsSource(s, c) THEN [granted EXCEPT ![s][c] = @ + 1]
                ELSE granted

\* BoxLimiter::admit
admit_box(b, c) ==
  /\ box' = IF Limit[c] = 0 THEN box
            ELSE [box EXCEPT ![b] = Touched(@, c, BoxClass)]
  /\ grantedBox' = IF Limit[c] > 0 /\ Room(box[b], c, BoxClass)
                   THEN [grantedBox EXCEPT ![b][c] = @ + 1] ELSE grantedBox

-----------------------------------------------------------------------------
(* The handlers: each limiter and the table of mailboxes has its own mutex, *)
(* and other requests run between them.  At most one request per class and  *)
(* mailbox is between two mutexes at a time.                                *)

\* The first half of POST, PUT and deposit.
ask_source(s, c, b) ==
  /\ <<c, b>> \notin passed
  /\ admit_source(s, c)
  /\ passed' = IF AdmitsSource(s, c) THEN passed \cup {<<c, b>>} ELSE passed
  /\ UNCHANGED <<box, boxes, deleting, pruning, clock, grantedBox>>

\* POST draws an id the table does not hold.  (Whether the table is at its cap,
\* and the request refused after all, is modelled in Relay.)
create_mailbox(b) ==
  /\ <<"create", b>> \in passed /\ b \notin boxes
  /\ passed' = passed \ {<<"create", b>>}
  /\ boxes' = boxes \cup {b}
  /\ UNCHANGED <<src, box, deleting, pruning, clock, granted, grantedBox>>

put_mailbox(b) ==
  /\ <<"put", b>> \in passed
  /\ passed' = passed \ {<<"put", b>>}
  /\ boxes' = boxes \cup {b}
  /\ UNCHANGED <<src, box, deleting, pruning, clock, granted, grantedBox>>

\* A deposit asks the mailbox's limiter under the lock of the table, and only
\* about a mailbox that exists.
deposit(b) ==
  /\ <<"deposit", b>> \in passed
  /\ passed' = passed \ {<<"deposit", b>>}
  /\ IF b \in boxes THEN admit_box(b, "box_deposit")
     ELSE UNCHANGED <<box, grantedBox>>
  /\ UNCHANGED <<src, boxes, deleting, pruning, clock, granted>>

\* A subscription looks the mailbox up, lets the table go, and then asks: the
\* mailbox may be gone by then, and forgotten.
subscribe(b) ==
  /\ b \in boxes /\ <<"ws", b>> \notin passed
  /\ passed' = passed \cup {<<"ws", b>>}
  /\ UNCHANGED <<src, box, boxes, deleting, pruning, clock, granted, grantedBox>>

admit_ws(b) ==
  /\ <<"ws", b>> \in passed
  /\ passed' = passed \ {<<"ws", b>>}
  /\ admit_box(b, "ws")
  /\ UNCHANGED <<src, boxes, deleting, pruning, clock, granted>>

\* DELETE: the mailbox leaves the table; its counters go after the lock.
delete_mailbox(b) ==
  /\ b \in boxes
  /\ boxes' = boxes \ {b}
  /\ deleting' = deleting \cup {b}
  /\ UNCHANGED <<passed, src, box, pruning, clock, granted, grantedBox>>

forget(b) ==
  /\ b \in deleting
  /\ deleting' = deleting \ {b}
  /\ box' = [box EXCEPT ![b] = Absent]
  /\ grantedBox' = [grantedBox EXCEPT ![b] = NoCount(BoxClass)]
  /\ UNCHANGED <<passed, src, boxes, pruning, clock, granted>>

\* The sweep reads the clock, drops idle mailboxes, then prunes both maps.
sweep ==
  /\ pruning.map = "none"
  /\ \E gone \in SUBSET boxes : boxes' = boxes \ gone
  /\ pruning' = [map |-> "src", now |-> clock]
  /\ UNCHANGED <<passed, src, box, deleting, clock, granted, grantedBox>>

prune_src ==
  /\ pruning.map = "src"
  /\ src' = Kept(src, pruning.now)
  /\ pruning' = [pruning EXCEPT !.map = "box"]
  /\ UNCHANGED <<passed, box, boxes, deleting, clock, granted, grantedBox>>

prune_box ==
  /\ pruning.map = "box"
  /\ box' = Kept(box, pruning.now)
  /\ pruning' = [map |-> "none", now |-> 0]
  /\ UNCHANGED <<passed, src, boxes, deleting, clock, granted, grantedBox>>

Next ==
  \/ Tick
  \/ \E s \in Source, c \in SourceClass, b \in Mailbox : ask_source(s, c, b)
  \/ \E b \in Mailbox :
       \/ create_mailbox(b) \/ put_mailbox(b) \/ deposit(b)
       \/ subscribe(b) \/ admit_ws(b) \/ delete_mailbox(b) \/ forget(b)
  \/ sweep \/ prune_src \/ prune_box

Spec == Init /\ [][Next]_vars
-----------------------------------------------------------------------------
(* Properties *)

\* In no minute is a source or a mailbox let through more often than its
\* limit, although entries are evicted, pruned with an old reading of the
\* clock, and started afresh.
RateHeld ==
  /\ \A s \in Source : \A c \in SourceClass : granted[s][c] <= Limit[c]
  /\ \A b \in Mailbox : \A c \in BoxClass : grantedBox[b][c] <= Limit[c]

\* The table of sources never outgrows its cap.
SourcesBounded == Cardinality(Tracked(src)) <= MaxSources

\* A source is forgotten only after it has been idle for the whole idle time:
\* no newcomer and no sweep evicts an active one.
ActiveKept ==
  [][\A s \in Source :
       src[s] # Absent /\ src'[s] = Absent => clock - src[s].touched >= MaxIdle]_vars
=============================================================================
