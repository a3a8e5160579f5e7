---------------------------- MODULE ReplayProofs -----------------------------
(***************************************************************************)
(* Proofs about Replay: the player holds exactly the timeout it needs, the *)
(* store shows a prefix of what is loaded, and a recording without its end *)
(* is marked, for any recordings, any number of loads and any commands.    *)
(***************************************************************************)
EXTENDS Replay, TLAPS

(* A player's fields have their types. *)
Fields(p) ==
  /\ p \in [runId : Files \cup {None}, total : Nat, index : Nat,
            playing : BOOLEAN, speed : Speeds, truncated : BOOLEAN,
            timers : Nat, handle : BOOLEAN, pane : [file : Files \cup {None}, n : Nat]]
  /\ p.index <= p.total

(* The timeouts pending are those the player can cancel. *)
Held(p) == Fields(p) /\ p.timers = IF p.handle THEN 1 ELSE 0

(* The part of TypeOK about the player; and it plays only what is left. *)
Settled(p) ==
  /\ Fields(p)
  /\ p.timers = IF p.playing THEN 1 ELSE 0
  /\ p.handle = p.playing
  /\ p.playing => p.index < p.total

(* What is loaded is the same. *)
SameRecording(p, q) ==
  q.runId = p.runId /\ q.total = p.total /\ q.truncated = p.truncated

(* The store has what the index says. *)
Faithful(p) == p.pane = Prefix(p)

(* The position is the same and nothing was rendered since. *)
SameView(p, q) == q.runId = p.runId /\ q.index = p.index /\ q.pane = p.pane

LEMMA ViewKept ==
  ASSUME NEW p, NEW q, Faithful(p), SameView(p, q)
  PROVE  Faithful(q)
  BY DEF Faithful, SameView, Prefix

(* What render() does, whatever was shown before. *)
LEMMA Rendered ==
  ASSUME NEW p, Fields(p)
  PROVE  /\ Fields(Render(p)) /\ Faithful(Render(p)) /\ SameRecording(p, Render(p))
         /\ Render(p).index = p.index /\ Render(p).playing = p.playing
         /\ Render(p).timers = p.timers /\ Render(p).handle = p.handle
         /\ Render(p).speed = p.speed
<1> DEFINE x == Prefix(p)
           q == [p EXCEPT !.pane = x]
<1>1. x \in [file : Files \cup {None}, n : Nat]
  BY DEF Prefix, NothingShown, Fields
<1> HIDE DEF x
<1>2. /\ q.pane = x /\ q.runId = p.runId /\ q.index = p.index /\ q.total = p.total
      /\ q.truncated = p.truncated /\ q.playing = p.playing /\ q.timers = p.timers
      /\ q.handle = p.handle /\ q.speed = p.speed
  BY DEF Fields
<1>3. Fields(q)
  BY <1>1 DEF Fields
<1>4. Render(p) = q
  BY DEF Render, x
<1> HIDE DEF q
<1>5. Prefix(q) = x
  BY <1>2 DEF Prefix, x
<1>. QED BY <1>2, <1>3, <1>4, <1>5 DEF Faithful, SameRecording

(* Fields that are given a value of their type keep it. *)
LEMMA Moved ==
  ASSUME NEW p, Fields(p), NEW n \in Nat, n <= p.total, NEW b \in BOOLEAN
  PROVE  Fields([p EXCEPT !.index = n, !.playing = b])
  BY DEF Fields

LEMMA Advanced ==
  ASSUME NEW p, Fields(p), NEW n \in Nat, n <= p.total, NEW t \in Nat, NEW b \in BOOLEAN
  PROVE  Fields([p EXCEPT !.timers = t, !.handle = b, !.index = n])
  BY DEF Fields

LEMMA Emptied ==
  ASSUME NEW p, Fields(p), NEW x \in Speeds, NEW t \in Nat
  PROVE  Fields([p EXCEPT !.speed = x, !.timers = t])
  BY DEF Fields

LEMMA Replaced ==
  ASSUME NEW p, Fields(p), NEW file \in Files \cup {None}, NEW n \in Nat,
         NEW i \in Nat, i <= n, NEW b \in BOOLEAN, NEW cut \in BOOLEAN
  PROVE  Fields([p EXCEPT !.runId = file, !.total = n, !.index = i,
                          !.playing = b, !.truncated = cut])
  BY DEF Fields

LEMMA SettledIsHeld ==
  ASSUME NEW p, Settled(p)
  PROVE  Held(p)
<1>1. p.timers = IF p.handle THEN 1 ELSE 0
  BY DEF Settled
<1>. QED BY <1>1 DEF Settled, Held

LEMMA Cancelled ==
  ASSUME NEW p, Held(p)
  PROVE  /\ CancelTimer(p) = [p EXCEPT !.timers = 0, !.handle = FALSE]
         /\ Fields(CancelTimer(p))
         /\ CancelTimer(p).timers = 0 /\ CancelTimer(p).handle = FALSE
         /\ CancelTimer(p).playing = p.playing /\ CancelTimer(p).index = p.index
         /\ CancelTimer(p).speed = p.speed
         /\ SameRecording(p, CancelTimer(p)) /\ SameView(p, CancelTimer(p))
<1>1. p.timers = IF p.handle THEN 1 ELSE 0
  BY DEF Held
<1>2. (IF p.handle THEN p.timers - 1 ELSE p.timers) = 0
  BY <1>1
<1>3. CancelTimer(p) = [p EXCEPT !.timers = 0, !.handle = FALSE]
  BY <1>2 DEF CancelTimer
<1> DEFINE q == [p EXCEPT !.timers = 0, !.handle = FALSE]
<1>4. /\ q.timers = 0 /\ q.handle = FALSE
      /\ q.playing = p.playing /\ q.index = p.index /\ q.speed = p.speed
      /\ q.runId = p.runId /\ q.total = p.total /\ q.truncated = p.truncated
      /\ q.pane = p.pane
  BY DEF Held, Fields
<1>5. Fields(q)
  BY DEF Held, Fields
<1>. QED
  BY <1>3, <1>4, <1>5 DEF SameRecording, SameView

LEMMA Stopped ==
  ASSUME NEW p, Fields(p), p.timers = 0, p.handle = FALSE, p.playing = FALSE
  PROVE  Settled(p)
<1>1. p.timers = IF p.playing THEN 1 ELSE 0
  OBVIOUS
<1>2. p.handle = p.playing
  OBVIOUS
<1>. QED BY <1>1, <1>2 DEF Settled

LEMMA Armed ==
  ASSUME NEW p, Fields(p), p.timers = 1, p.handle = TRUE, p.playing = TRUE,
         p.index < p.total
  PROVE  Settled(p)
<1>1. p.timers = IF p.playing THEN 1 ELSE 0
  OBVIOUS
<1>2. p.handle = p.playing
  OBVIOUS
<1>. QED BY <1>1, <1>2 DEF Settled

LEMMA Scheduled ==
  ASSUME NEW p, Held(p)
  PROVE  Settled(Schedule(p)) /\ SameRecording(p, Schedule(p)) /\ SameView(p, Schedule(p))
<1> DEFINE q == CancelTimer(p)
<1>1. /\ Fields(q) /\ q.timers = 0 /\ q.handle = FALSE /\ q.playing = p.playing
      /\ SameRecording(p, q) /\ SameView(p, q)
  BY Cancelled
<1> HIDE DEF q
<1>2. CASE ~p.playing
  <2>1. Schedule(p) = q
    BY <1>2 DEF Schedule, q
  <2>2. q.playing = FALSE
    BY <1>1, <1>2 DEF Fields
  <2>3. Settled(q)
    BY <1>1, <2>2, Stopped
  <2>. QED BY <1>1, <2>1, <2>3
<1>3. CASE p.playing /\ p.index >= p.total
  <2> DEFINE s == [q EXCEPT !.playing = FALSE]
  <2>1. Schedule(p) = s
    BY <1>3 DEF Schedule, q
  <2>2. Fields(s) /\ s.timers = 0 /\ s.handle = FALSE /\ s.playing = FALSE
    BY <1>1 DEF Fields
  <2>3. SameRecording(p, s) /\ SameView(p, s)
    BY <1>1 DEF Fields, SameRecording, SameView
  <2> HIDE DEF s
  <2>. QED BY <2>1, <2>2, <2>3, Stopped
<1>4. CASE p.playing /\ ~(p.index >= p.total)
  <2> DEFINE s == [q EXCEPT !.timers = 1, !.handle = TRUE]
  <2>1. Schedule(p) = s
    <3>1. Schedule(p) = [q EXCEPT !.timers = q.timers + 1, !.handle = TRUE]
      BY <1>4 DEF Schedule, q
    <3>. QED BY <1>1, <3>1
  <2>2. q.playing = TRUE
    BY <1>1, <1>4 DEF Fields
  <2>3. s.timers = 1 /\ s.handle = TRUE /\ s.playing = TRUE /\ s.index < s.total
    <3>1. q.index = p.index
      BY Cancelled DEF q
    <3>2. p.index < p.total
      BY <1>4 DEF Held, Fields
    <3>. QED BY <1>1, <2>2, <3>1, <3>2 DEF Fields, SameRecording
  <2>5. Fields(s)
    BY <1>1 DEF Fields
  <2>4. SameRecording(p, s) /\ SameView(p, s)
    BY <1>1 DEF Fields, SameRecording, SameView
  <2> HIDE DEF s
  <2>. QED BY <2>1, <2>3, <2>4, <2>5, Armed
<1>. QED BY <1>2, <1>3, <1>4

-----------------------------------------------------------------------------
(* The methods of the player. *)

LEMMA Rewound ==
  ASSUME NEW p, Settled(p), Faithful(p)
  PROVE  /\ Fields(Rewind(p)) /\ Faithful(Rewind(p)) /\ SameRecording(p, Rewind(p))
         /\ Rewind(p).timers = p.timers /\ Rewind(p).handle = p.handle
<1> DEFINE q == [p EXCEPT !.index = 0]
<1>1. Fields(q) /\ SameRecording(p, q) /\ q.timers = p.timers /\ q.handle = p.handle
  BY DEF Settled, Fields, SameRecording
<1>2. Rewind(p) = IF p.index >= p.total THEN Render(q) ELSE p
  BY DEF Rewind
<1> HIDE DEF q
<1>3. CASE p.index >= p.total
  BY <1>1, <1>2, <1>3, Rendered DEF SameRecording
<1>4. CASE ~(p.index >= p.total)
  BY <1>2, <1>4 DEF Settled, SameRecording
<1>. QED BY <1>3, <1>4

LEMMA Played ==
  ASSUME NEW p, Settled(p), Faithful(p)
  PROVE  Settled(Play(p)) /\ SameRecording(p, Play(p)) /\ Faithful(Play(p))
<1> DEFINE r == Rewind(p)
           q == [r EXCEPT !.playing = TRUE]
<1>1. CASE p.total = 0 \/ p.playing
  BY <1>1 DEF Play, SameRecording
<1>2. CASE ~(p.total = 0 \/ p.playing)
  <2>1. Play(p) = Schedule(q)
    BY <1>2 DEF Play
  <2>2. Fields(r) /\ Faithful(r) /\ SameRecording(p, r)
        /\ r.timers = p.timers /\ r.handle = p.handle
    BY Rewound
  <2> HIDE DEF r
  <2>3. Fields(q) /\ SameRecording(r, q) /\ SameView(r, q)
        /\ q.timers = r.timers /\ q.handle = r.handle
    BY <2>2 DEF Fields, SameRecording, SameView
  <2>4. Held(q)
    BY <2>2, <2>3, SettledIsHeld DEF Held
  <2> HIDE DEF q
  <2>5. Settled(Schedule(q)) /\ SameRecording(q, Schedule(q)) /\ SameView(q, Schedule(q))
    BY <2>4, Scheduled
  <2>6. Faithful(Schedule(q))
    BY <2>2, <2>3, <2>5, ViewKept
  <2>. QED BY <2>1, <2>2, <2>3, <2>5, <2>6 DEF SameRecording
<1>. QED BY <1>1, <1>2

LEMMA Paused ==
  ASSUME NEW p, Settled(p), Faithful(p)
  PROVE  Settled(Pause(p)) /\ SameRecording(p, Pause(p)) /\ Faithful(Pause(p))
<1> DEFINE q == CancelTimer(p)
           s == [q EXCEPT !.playing = FALSE]
<1>1. Fields(q) /\ q.timers = 0 /\ q.handle = FALSE /\ SameRecording(p, q) /\ SameView(p, q)
  BY Cancelled, SettledIsHeld
<1>2. Pause(p) = s
  BY DEF Pause
<1> HIDE DEF q
<1>3. Fields(s) /\ s.timers = 0 /\ s.handle = FALSE /\ s.playing = FALSE
      /\ SameRecording(p, s) /\ SameView(p, s)
  BY <1>1 DEF Fields, SameRecording, SameView
<1> HIDE DEF s
<1>. QED BY <1>2, <1>3, Stopped, ViewKept

LEMMA Sought ==
  ASSUME NEW p, Settled(p), NEW target \in Nat
  PROVE  /\ Settled(Seek(p, target)) /\ SameRecording(p, Seek(p, target))
         /\ Faithful(Seek(p, target))
<1> DEFINE c == CancelTimer(p)
           n == Clamped(p, target)
           q == [c EXCEPT !.index = n]
           r == Render(q)
<1>1. /\ Fields(c) /\ c.timers = 0 /\ c.handle = FALSE /\ SameRecording(p, c)
  BY Cancelled, SettledIsHeld
<1>2. n \in Nat /\ n <= p.total
  BY DEF Clamped, Settled, Fields
<1>3. Seek(p, target) = Schedule(r)
  BY DEF Seek
<1> HIDE DEF c, n
<1>4. Fields(q) /\ q.timers = 0 /\ q.handle = FALSE /\ SameRecording(c, q)
  BY <1>1, <1>2 DEF Fields, SameRecording
<1> HIDE DEF q
<1>5. /\ Fields(r) /\ r.timers = 0 /\ r.handle = FALSE /\ SameRecording(q, r)
      /\ Faithful(r)
  BY <1>4, Rendered
<1> HIDE DEF r
<1>6. Held(r)
  BY <1>5 DEF Held
<1>7. Settled(Schedule(r)) /\ SameRecording(r, Schedule(r)) /\ Faithful(Schedule(r))
  BY <1>5, <1>6, Scheduled, ViewKept
<1>. QED BY <1>1, <1>3, <1>4, <1>5, <1>7 DEF SameRecording

LEMMA Sped ==
  ASSUME NEW p, Settled(p), Faithful(p), NEW speed \in Speeds
  PROVE  /\ Settled(SetSpeed(p, speed)) /\ SameRecording(p, SetSpeed(p, speed))
         /\ Faithful(SetSpeed(p, speed))
<1> DEFINE q == [p EXCEPT !.speed = speed]
<1>1. Fields(q)
  BY DEF Settled, Fields
<1>2. q.timers = p.timers /\ q.handle = p.handle /\ SameRecording(p, q) /\ SameView(p, q)
  BY DEF Settled, Fields, SameRecording, SameView
<1>3. Held(q)
  BY <1>1, <1>2, SettledIsHeld DEF Held
<1>4. SetSpeed(p, speed) = IF p.speed = speed THEN p ELSE Schedule(q)
  BY DEF SetSpeed
<1>5. SameRecording(p, p)
  BY DEF SameRecording
<1> HIDE DEF q
<1>6. Settled(Schedule(q)) /\ SameRecording(q, Schedule(q)) /\ SameView(q, Schedule(q))
  BY <1>3, Scheduled
<1>7. Faithful(q)
  BY <1>2, ViewKept
<1>8. Faithful(Schedule(q))
  BY <1>6, <1>7, ViewKept
<1>9. SameRecording(p, Schedule(q))
  BY <1>2, <1>6 DEF SameRecording
<1>. QED BY <1>4, <1>5, <1>6, <1>8, <1>9

LEMMA Restarted ==
  ASSUME NEW p, Settled(p)
  PROVE  Settled(Reset(p)) /\ SameRecording(p, Reset(p)) /\ Faithful(Reset(p))
<1> DEFINE q == CancelTimer(p)
           s == [q EXCEPT !.index = 0, !.playing = FALSE]
<1>1. Fields(q) /\ q.timers = 0 /\ q.handle = FALSE /\ SameRecording(p, q)
  BY Cancelled, SettledIsHeld
<1>2. Reset(p) = Render(s)
  BY DEF Reset
<1> HIDE DEF q
<1>3. Fields(s)
  <2>1. 0 \in Nat /\ FALSE \in BOOLEAN /\ 0 <= q.total
    BY <1>1 DEF Fields
  <2>. QED BY <1>1, <2>1, Moved, Zenon
<1>4. s.timers = 0 /\ s.handle = FALSE /\ s.playing = FALSE /\ SameRecording(p, s)
  BY <1>1 DEF Fields, SameRecording
<1> HIDE DEF s
<1> DEFINE r == Render(s)
<1>5. /\ Fields(r) /\ r.timers = 0 /\ r.handle = FALSE /\ r.playing = FALSE
      /\ SameRecording(s, r) /\ Faithful(r)
  BY <1>3, <1>4, Rendered
<1>6. Reset(p) = r
  BY <1>2
<1> HIDE DEF r
<1>. QED BY <1>4, <1>5, <1>6, Stopped DEF SameRecording

LEMMA Cleared ==
  ASSUME NEW p, Settled(p)
  PROVE  Settled(Clear(p)) /\ Clear(p).runId = None /\ Faithful(Clear(p))
<1>1. p.speed \in Speeds /\ CancelTimer(p).timers = 0
  BY Cancelled, SettledIsHeld DEF Settled, Fields
<1>2. Fields(Idle) /\ Idle.runId = None /\ Idle.index = 0 /\ Idle.playing = FALSE
      /\ Idle.handle = FALSE /\ Idle.pane = NothingShown
  BY DEF Idle, Fields, Speeds, NothingShown
<1> DEFINE s == [Idle EXCEPT !.speed = p.speed, !.timers = 0]
<1>3. Clear(p) = s
  BY <1>1 DEF Clear
<1>4. Fields(s)
  <2>1. 0 \in Nat
    OBVIOUS
  <2>. QED BY <1>1, <1>2, <2>1, Emptied, Zenon
<1>5. /\ s.timers = 0 /\ s.handle = FALSE /\ s.playing = FALSE
      /\ s.runId = None /\ s.index = 0 /\ s.pane = NothingShown
  BY <1>2 DEF Fields
<1> HIDE DEF s
<1>. QED BY <1>3, <1>4, <1>5, Stopped DEF Faithful, Prefix

LEMMA Fired ==
  ASSUME NEW p, Settled(p), p.timers > 0
  PROVE  Settled(Fire(p)) /\ SameRecording(p, Fire(p)) /\ Faithful(Fire(p))
<1> DEFINE q == [p EXCEPT !.timers = 0, !.handle = FALSE, !.index = p.index + 1]
           r == Render(q)
<1>1. p.timers = 1 /\ p.index < p.total
  BY DEF Settled, Fields
<1>2. Fire(p) = Schedule(r)
  <2>1. Fire(p) = Schedule(Render([p EXCEPT !.timers = p.timers - 1, !.handle = FALSE,
                                            !.index = p.index + 1]))
    BY DEF Fire
  <2>2. p.timers - 1 = 0
    BY <1>1
  <2>. QED BY <2>1, <2>2
<1>3. q.timers = 0 /\ q.handle = FALSE /\ SameRecording(p, q)
  BY DEF Settled, Fields, SameRecording
<1>4. Fields(q)
  <2>1. p.index + 1 \in Nat /\ p.index + 1 <= p.total
    BY <1>1 DEF Settled, Fields
  <2>. QED BY <2>1, Advanced DEF Settled
<1> HIDE DEF q
<1>5. /\ Fields(r) /\ r.timers = 0 /\ r.handle = FALSE /\ SameRecording(q, r)
      /\ Faithful(r)
  BY <1>3, <1>4, Rendered
<1> HIDE DEF r
<1>6. Held(r)
  BY <1>5 DEF Held
<1>7. Settled(Schedule(r)) /\ SameRecording(r, Schedule(r)) /\ Faithful(Schedule(r))
  BY <1>5, <1>6, Scheduled, ViewKept
<1>. QED BY <1>2, <1>3, <1>5, <1>7 DEF SameRecording

LEMMA Loaded ==
  ASSUME NEW p, Settled(p), NEW file \in Files, NEW n \in Nat, NEW cut \in BOOLEAN
  PROVE  /\ Settled(Load(p, file, n, cut))
         /\ Load(p, file, n, cut).runId = file
         /\ Load(p, file, n, cut).total = n
         /\ Load(p, file, n, cut).truncated = cut
         /\ Faithful(Load(p, file, n, cut))
<1> DEFINE q == CancelTimer(p)
           s == [q EXCEPT !.runId = file, !.total = n, !.index = 0,
                          !.playing = FALSE, !.truncated = cut]
<1>1. Fields(q) /\ q.timers = 0 /\ q.handle = FALSE
  BY Cancelled, SettledIsHeld
<1>2. Load(p, file, n, cut) = Render(s)
  BY DEF Load
<1> HIDE DEF q
<1>3. /\ s.timers = 0 /\ s.handle = FALSE /\ s.playing = FALSE
      /\ s.runId = file /\ s.total = n /\ s.truncated = cut
  BY <1>1 DEF Fields
<1>4. Fields(s)
  <2>1. 0 \in Nat /\ FALSE \in BOOLEAN /\ 0 <= n /\ file \in Files \cup {None}
    OBVIOUS
  <2>. QED BY <1>1, <2>1, Replaced, Zenon
<1> HIDE DEF s
<1> DEFINE r == Render(s)
<1>5. /\ Fields(r) /\ r.timers = 0 /\ r.handle = FALSE /\ r.playing = FALSE
      /\ SameRecording(s, r) /\ Faithful(r)
  BY <1>3, <1>4, Rendered
<1>6. Load(p, file, n, cut) = r
  BY <1>2
<1> HIDE DEF r
<1>. QED BY <1>3, <1>5, <1>6, Stopped DEF SameRecording

-----------------------------------------------------------------------------
(* The inductive invariant. *)

(* Files only grow, up to their length. *)
Growing ==
  /\ written \in [Files -> Nat]
  /\ \A f \in Files : written[f] <= Lines[f]

(* The panel: its list, its choice, its loads. *)
Listing ==
  /\ listed \subseteq [file : Files, complete : BOOLEAN]
  /\ selected \in Files \cup {None}
  /\ loads \subseteq [file : Files, complete : BOOLEAN, n : 0..MaxCommands]
  /\ loadedComplete \in {None, TRUE, FALSE}
  /\ commands \in 0..MaxCommands

(* What was called complete has its last line, now and later. *)
Ended ==
  /\ \A x \in listed : x.complete = TRUE => Ends[x.file] <= written[x.file]
  /\ \A x \in loads : x.complete = TRUE => Ends[x.file] <= written[x.file]

(* What is loaded without a mark has its last line. *)
Marked ==
  player.runId # None /\ loadedComplete # FALSE /\ player.truncated = FALSE =>
    Ends[player.runId] <= player.total

IInv == Growing /\ Listing /\ Ended /\ Settled(player) /\ StorePrefix /\ Marked

(* A step of the player alone. *)
PlayerStep(p) ==
  /\ player' = p
  /\ Settled(p) /\ SameRecording(player, p) /\ Faithful(p)
  /\ loadedComplete' = loadedComplete

LEMMA StepOfPlayer ==
  ASSUME Marked, NEW p, PlayerStep(p)
  PROVE  Settled(player)' /\ StorePrefix' /\ Marked'
<1>1. player' = p
  BY DEF PlayerStep
<1>2. Settled(player') /\ player'.pane = Prefix(player')
  BY <1>1 DEF PlayerStep, Faithful
<1>3. Marked'
  BY <1>1 DEF PlayerStep, SameRecording, Marked
<1>. QED BY <1>2, <1>3 DEF StorePrefix

LEMMA InitIInv == Init => IInv
<1> SUFFICES ASSUME Init PROVE IInv
  OBVIOUS
<1>1. Growing
  BY ReplayAssumption DEF Init, Growing
<1>2. Listing /\ Ended
  BY ReplayAssumption DEF Init, Listing, Ended
<1>3. Settled(player)
  <2>1. Fields(Idle) /\ Idle.playing = FALSE /\ Idle.timers = 0 /\ Idle.handle = FALSE
    BY DEF Idle, Fields, Speeds, NothingShown
  <2>. QED BY <2>1, Stopped DEF Init
<1>4. StorePrefix /\ Marked
  BY DEF Init, StorePrefix, Prefix, Marked, Idle
<1>. QED BY <1>1, <1>2, <1>3, <1>4 DEF IInv

(* Actions that do not touch the player. *)
Aside == UNCHANGED <<player, loadedComplete>>

LEMMA AsideKeeps ==
  ASSUME IInv, Aside
  PROVE  Settled(player)' /\ StorePrefix' /\ Marked'
<1>1. Settled(player')
  BY DEF IInv, Aside
<1>. QED BY <1>1 DEF IInv, Aside, StorePrefix, Marked

(* Actions of the player alone leave the panel as it is. *)
LEMMA PanelKept ==
  ASSUME Growing, Listing, Ended, commands' \in 0..MaxCommands,
         loadedComplete' = loadedComplete,
         UNCHANGED <<written, listed, selected, loads>>
  PROVE  Growing' /\ Listing' /\ Ended'
  BY DEF Growing, Listing, Ended

LEMMA Commanded ==
  ASSUME Listing, Command
  PROVE  commands \in 0..MaxCommands /\ commands' \in 0..MaxCommands
  BY ReplayAssumption DEF Listing, Command

LEMMA PlayerActs ==
  ASSUME IInv,
         TogglePause \/ ToggleResume \/ Scrub \/ ChangeSpeed \/ Restart \/ Tick
  PROVE  IInv'
<1> SUFFICES ASSUME NEW p, PlayerStep(p), commands' \in 0..MaxCommands,
                    UNCHANGED <<written, listed, selected, loads>>
             PROVE  IInv'
  <2>. Settled(player) /\ Faithful(player)
    BY DEF IInv, StorePrefix, Faithful
  <2>1. CASE TogglePause
    <3>1. PlayerStep(Pause(player))
      BY <2>1, Paused DEF TogglePause, PlayerStep
    <3>. QED BY <2>1, <3>1, Commanded DEF TogglePause, IInv
  <2>2. CASE ToggleResume
    <3>1. PlayerStep(Play(player))
      BY <2>2, Played DEF ToggleResume, PlayerStep
    <3>. QED BY <2>2, <3>1, Commanded DEF ToggleResume, IInv
  <2>3. CASE Scrub
    <3>1. PICK target \in 0..player.total : player' = Seek(player, target)
      BY <2>3 DEF Scrub
    <3>2. target \in Nat
      BY <3>1 DEF IInv, Settled, Fields
    <3>3. PlayerStep(Seek(player, target))
      BY <2>3, <3>1, <3>2, Sought DEF Scrub, PlayerStep
    <3>. QED BY <2>3, <3>3, Commanded DEF Scrub, IInv
  <2>4. CASE ChangeSpeed
    <3>1. PICK speed \in Speeds : player' = SetSpeed(player, speed)
      BY <2>4 DEF ChangeSpeed
    <3>2. PlayerStep(SetSpeed(player, speed))
      BY <2>4, <3>1, Sped DEF ChangeSpeed, PlayerStep
    <3>. QED BY <2>4, <3>2, Commanded DEF ChangeSpeed, IInv
  <2>5. CASE Restart
    <3>1. PlayerStep(Reset(player))
      BY <2>5, Restarted DEF Restart, PlayerStep
    <3>. QED BY <2>5, <3>1, Commanded DEF Restart, IInv
  <2>6. CASE Tick
    <3>1. PlayerStep(Fire(player))
      BY <2>6, Fired DEF Tick, PlayerStep
    <3>2. commands' \in 0..MaxCommands
      BY <2>6 DEF Tick, IInv, Listing
    <3>. QED BY <2>6, <3>1, <3>2 DEF Tick
  <2>. QED BY <2>1, <2>2, <2>3, <2>4, <2>5, <2>6
<1>1. Settled(player)' /\ StorePrefix' /\ Marked'
  BY StepOfPlayer DEF IInv
<1>2. Growing' /\ Listing' /\ Ended'
  BY PanelKept DEF IInv, PlayerStep
<1>. QED BY <1>1, <1>2 DEF IInv

LEMMA FileGrows == ASSUME IInv, NEW f \in Files, Append(f) PROVE IInv'
<1>1. Settled(player)' /\ StorePrefix' /\ Marked'
  BY AsideKeeps DEF Append, Aside
<1>2. \A g \in Files : written[g] <= written'[g]
  BY DEF IInv, Growing, Append
<1>3. Growing'
  <2>1. written' \in [Files -> Nat]
    BY DEF IInv, Growing, Append
  <2>2. ASSUME NEW g \in Files PROVE written'[g] <= Lines[g]
    <3>1. written \in [Files -> Nat] /\ written[g] <= Lines[g] /\ Lines[g] \in Nat
      BY ReplayAssumption DEF IInv, Growing
    <3>2. CASE g = f
      <4>1. written'[g] = written[g] + 1 /\ written[g] < Lines[g]
        BY <3>1, <3>2 DEF Append
      <4>. QED BY <3>1, <4>1
    <3>3. CASE g # f
      <4>1. written'[g] = written[g]
        BY <3>1, <3>3 DEF Append
      <4>. QED BY <3>1, <4>1
    <3>. QED BY <3>2, <3>3
  <2>. QED BY <2>1, <2>2 DEF Growing
<1>4. Listing'
  BY DEF IInv, Listing, Append
<1>5. Ended'
  <2>1. ASSUME NEW x \in listed, x.complete = TRUE PROVE Ends[x.file] <= written'[x.file]
    <3>1. x.file \in Files /\ Ends[x.file] <= written[x.file]
      BY <2>1 DEF IInv, Listing, Ended
    <3>. QED BY <1>2, <1>3, <3>1, ReplayAssumption DEF IInv, Growing
  <2>2. ASSUME NEW x \in loads, x.complete = TRUE PROVE Ends[x.file] <= written'[x.file]
    <3>1. x.file \in Files /\ Ends[x.file] <= written[x.file]
      BY <2>2 DEF IInv, Listing, Ended
    <3>. QED BY <1>2, <1>3, <3>1, ReplayAssumption DEF IInv, Growing
  <2>. QED BY <2>1, <2>2 DEF Ended, Append
<1>. QED BY <1>1, <1>3, <1>4, <1>5 DEF IInv

LEMMA ListFetched == ASSUME IInv, Refresh PROVE IInv'
<1>1. Settled(player)' /\ StorePrefix' /\ Marked'
  BY AsideKeeps DEF Refresh, Aside
<1>2. Growing'
  BY DEF IInv, Growing, Refresh
<1>3. ASSUME NEW x \in listed'
      PROVE  /\ x \in [file : Files, complete : BOOLEAN]
             /\ x.complete = TRUE => Ends[x.file] <= written[x.file]
  <2>1. PICK f \in Files : x = [file |-> f, complete |-> Complete(f)]
    BY <1>3 DEF Refresh
  <2>2. Complete(f) \in BOOLEAN
    BY DEF Complete
  <2>. QED BY <2>1, <2>2 DEF Complete
<1>4. selected' \in Files \cup {None}
  BY <1>3 DEF IInv, Listing, Refresh
<1>5. Listing'
  BY <1>3, <1>4 DEF IInv, Listing, Refresh
<1>6. Ended'
  BY <1>3 DEF IInv, Ended, Refresh
<1>. QED BY <1>1, <1>2, <1>5, <1>6 DEF IInv

LEMMA PanelActs ==
  ASSUME IInv, RefreshFails \/ (\E load \in loads : Fail(load)) \/ Choose
  PROVE  IInv'
<1>1. Settled(player)' /\ StorePrefix' /\ Marked'
  BY AsideKeeps DEF RefreshFails, Fail, Choose, Aside
<1>2. CASE RefreshFails
  BY <1>1, <1>2 DEF IInv, RefreshFails, Growing, Listing, Ended
<1>3. CASE \E load \in loads : Fail(load)
  BY <1>1, <1>3 DEF IInv, Fail, Growing, Listing, Ended
<1>4. CASE Choose
  <2>1. commands' \in 0..MaxCommands
    BY <1>4, Commanded DEF IInv, Choose
  <2>2. selected' \in Files
    BY <1>4 DEF IInv, Listing, Choose
  <2>. QED BY <1>1, <1>4, <2>1, <2>2 DEF IInv, Choose, Growing, Listing, Ended
<1>. QED BY <1>2, <1>3, <1>4

LEMMA LoadSent == ASSUME IInv, ToggleLoad PROVE IInv'
<1>1. Settled(player)' /\ StorePrefix' /\ Marked'
  BY AsideKeeps DEF ToggleLoad, Aside
<1>2. commands \in 0..MaxCommands /\ commands' \in 0..MaxCommands
  BY Commanded DEF IInv, ToggleLoad
<1>3. PICK item \in listed :
        loads' = loads \cup {[file |-> item.file, complete |-> item.complete, n |-> commands]}
  BY DEF ToggleLoad
<1>4. item \in [file : Files, complete : BOOLEAN]
  BY DEF IInv, Listing
<1>5. Growing'
  BY DEF IInv, Growing, ToggleLoad
<1>6. Listing'
  <2> DEFINE load == [file |-> item.file, complete |-> item.complete, n |-> commands]
  <2>1. load \in [file : Files, complete : BOOLEAN, n : 0..MaxCommands]
    BY <1>2, <1>4
  <2>2. loads' = loads \cup {load}
    BY <1>3
  <2> HIDE DEF load
  <2>. QED BY <1>2, <2>1, <2>2 DEF IInv, Listing, ToggleLoad
<1>7. Ended'
  BY <1>3 DEF IInv, Ended, ToggleLoad
<1>. QED BY <1>1, <1>5, <1>6, <1>7 DEF IInv

(* A load that arrives is read now, so it has what its label promised unless *)
(* a bad line cut it, which the player is told.                              *)
LEMMA LoadArrives == ASSUME IInv, NEW load \in loads, Arrive(load) PROVE IInv'
<1> DEFINE file == load.file
           cut == Bad[file] \in 1..written[file]
           p == Load(player, file, ReadLines(file), cut)
<1>1. load \in [file : Files, complete : BOOLEAN, n : 0..MaxCommands]
  BY DEF IInv, Listing
<1>2. file \in Files /\ written[file] \in Nat /\ Bad[file] \in Nat /\ cut \in BOOLEAN
  BY <1>1, ReplayAssumption DEF IInv, Growing
<1>3. ReadLines(file) \in Nat
  BY <1>2 DEF ReadLines
<1>4. /\ Settled(p) /\ p.runId = file
      /\ p.total = ReadLines(file) /\ p.truncated = cut /\ Faithful(p)
  <2>1. Settled(player)
    BY DEF IInv
  <2> HIDE DEF file, cut
  <2>. QED BY <1>2, <1>3, <2>1, Loaded
<1>5. player' = Play(p) /\ loadedComplete' = load.complete
  BY DEF Arrive, LabelOf
<1> HIDE DEF p, cut
<1>6. Settled(Play(p)) /\ SameRecording(p, Play(p)) /\ Faithful(Play(p))
  BY <1>4, Played
<1>7. player' = Play(p) /\ StorePrefix'
  BY <1>5, <1>6 DEF StorePrefix, Faithful
<1>8. Settled(player)'
  BY <1>6, <1>7
<1>9. Marked'
  <2>1. SUFFICES ASSUME load.complete # FALSE, cut = FALSE
                 PROVE  Ends[file] <= ReadLines(file)
    BY <1>4, <1>5, <1>6, <1>7 DEF Marked, SameRecording
  <2>2. ReadLines(file) = written[file]
    BY <2>1 DEF ReadLines, cut
  <2>3. load.complete = TRUE
    BY <1>1, <2>1
  <2>. QED BY <2>2, <2>3 DEF IInv, Ended
<1>10. Growing' /\ Ended'
  BY DEF IInv, Growing, Ended, Arrive
<1>11. Listing'
  BY <1>1 DEF IInv, Listing, Arrive, LabelOf
<1>. QED BY <1>7, <1>8, <1>9, <1>10, <1>11 DEF IInv

LEMMA PanesCleared == ASSUME IInv, GoLive PROVE IInv'
<1>1. /\ Settled(Clear(player)) /\ Clear(player).runId = None /\ Faithful(Clear(player))
  BY Cleared DEF IInv
<1>2. player' = Clear(player)
  BY DEF GoLive
<1>3. Settled(player)' /\ StorePrefix' /\ Marked'
  BY <1>1, <1>2 DEF StorePrefix, Faithful, Marked
<1>4. commands' \in 0..MaxCommands
  BY Commanded DEF IInv, GoLive
<1>5. Growing' /\ Listing' /\ Ended'
  BY <1>4 DEF IInv, Growing, Listing, Ended, GoLive
<1>. QED BY <1>3, <1>5 DEF IInv

LEMMA NextIInv == IInv /\ [Next]_vars => IInv'
<1> SUFFICES ASSUME IInv, [Next]_vars PROVE IInv'
  OBVIOUS
<1>1. CASE \E f \in Files : Append(f)
  BY <1>1, FileGrows
<1>2. CASE Refresh
  BY <1>2, ListFetched
<1>3. CASE RefreshFails \/ (\E load \in loads : Fail(load)) \/ Choose
  BY <1>3, PanelActs
<1>4. CASE \E load \in loads : Arrive(load)
  BY <1>4, LoadArrives
<1>5. CASE TogglePause \/ ToggleResume \/ Scrub \/ ChangeSpeed \/ Restart \/ Tick
  BY <1>5, PlayerActs
<1>6. CASE ToggleLoad
  BY <1>6, LoadSent
<1>7. CASE GoLive
  BY <1>7, PanesCleared
<1>8. CASE UNCHANGED vars
  <2>1. Settled(player)'
    BY <1>8 DEF IInv, vars
  <2>2. Growing' /\ Listing' /\ Ended' /\ StorePrefix' /\ Marked'
    BY <1>8 DEF IInv, vars, Growing, Listing, Ended, StorePrefix, Marked
  <2>. QED BY <2>1, <2>2 DEF IInv
<1>. QED BY <1>1, <1>2, <1>3, <1>4, <1>5, <1>6, <1>7, <1>8 DEF Next

-----------------------------------------------------------------------------
(* What is called complete has its end, and the player is settled, in every *)
(* reachable state.                                                         *)
THEOREM ReplayInvariant == Spec => []IInv
<1>. QED BY InitIInv, NextIInv, PTL DEF Spec

(* TypeOK: one timeout while it plays, none otherwise, and the player can   *)
(* cancel it (replayPlayer.ts:18-20).                                       *)
THEOREM OneTimer == Spec => []TypeOK
<1>1. ASSUME IInv PROVE TypeOK
  <2>1. Settled(player) /\ Fields(player) /\ Growing /\ Listing
    BY <1>1 DEF IInv, Settled
  <2>2. player \in [runId : Files \cup {None}, total : Nat, index : 0..player.total,
                    playing : BOOLEAN, speed : Speeds, truncated : BOOLEAN,
                    timers : Nat, handle : BOOLEAN,
                    pane : [file : Files \cup {None}, n : Nat]]
    BY <2>1 DEF Fields
  <2>3. player.timers = (IF player.playing THEN 1 ELSE 0) /\ player.handle = player.playing
    BY <2>1 DEF Settled
  <2>. QED BY <2>1, <2>2, <2>3 DEF TypeOK, Growing, Listing
<1>. QED BY <1>1, ReplayInvariant, PTL

(* StorePrefix: every method that moves the index renders before it is over,*)
(* so the store holds the first `index' events of what is loaded.           *)
THEOREM PanesShowPrefix == Spec => []StorePrefix
<1>1. IInv => StorePrefix
  BY DEF IInv
<1>. QED BY <1>1, ReplayInvariant, PTL

(* PartialIsMarked: a recording without its end is marked partial, however  *)
(* old the list that was clicked and in whatever order loads arrive.        *)
THEOREM PartialAlwaysMarked == Spec => []PartialIsMarked
<1>1. ASSUME IInv PROVE PartialIsMarked
  <2>1. SUFFICES ASSUME player.runId # None, player.total < Ends[player.runId]
                 PROVE  IsPartial
    BY DEF PartialIsMarked
  <2>2. player.truncated \in BOOLEAN /\ player.total \in Nat /\ Ends[player.runId] \in Nat
    BY <1>1, <2>1, ReplayAssumption DEF IInv, Settled, Fields
  <2>3. ~(Ends[player.runId] <= player.total)
    BY <2>1, <2>2
  <2>. QED BY <1>1, <2>1, <2>2, <2>3 DEF IInv, Marked, IsPartial
<1>. QED BY <1>1, ReplayInvariant, PTL
=============================================================================
