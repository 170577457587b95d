------------------------------- MODULE MacroRun -------------------------------
\* The macro engine: one bounded transition a scan, every key it sends a lease
\* on the shared ledger, the report filter of uninterruptible playback, a
\* Unicode entry with its unwinding, and the verdict kept about the slot.
\*
\* Sources: macro/macro_payload_run.c, macro_slot_provider.c, profile_macro_provider.c.
EXTENDS Integers, Sequences, FiniteSets, SequencesExt, FiniteSetsExt, Functions

CONSTANTS Keys, Mods,   \* usages, and the modifiers among them
          Alt, Caps, Esc, Digit, Trigger, Commit,
          LiveMost,     \* bound: owners the rest of the keyboard has, per usage
          Hosts,        \* the host modes a macro starts under
          Programs,     \* what the slot may hold: [steps, protection, decodes]
          Most          \* bound: owners one usage takes, for UINT8_MAX

LiveKeys == DOMAIN LiveMost

\* What a macro types itself is neither Caps Lock nor what opens an entry.
Plain == Keys \ {Caps, Trigger}

StepType == [op : {"down", "up", "tap", "char", "entry", "delay"}, window : BOOLEAN,
             key : Plain, keys : Seq(Plain), second : Seq(Plain)]
BankType == [steps : Seq(StepType), protection : {"on", "off", "auto"}, decodes : BOOLEAN]

ASSUME KeysAssumption ==
  /\ Mods \subseteq Keys /\ LiveKeys \subseteq Keys /\ Alt \in Mods
  /\ {Caps, Esc, Digit, Trigger, Commit} \subseteq Keys \ (Mods \cup LiveKeys)
  /\ Caps # Trigger /\ Digit \notin {Caps, Trigger}
  /\ {Caps, Digit, Trigger} \cap {Esc, Commit} = {}
  /\ Most \in Nat \ {0}

ASSUME ProgramsAssumption == Programs \subseteq BankType /\ Hosts \subseteq 0 .. 3

VARIABLES st,       \* the engine, the ledger, the report and the host
          slot      \* the slot's bank, the verdict kept about it, and whether it changed
vars == <<st, slot>>

\* What types a scalar on the host: nothing (0), macOS, WinCompose on Windows (2),
\* Linux.
MacOS == 1
Linux == 3

Idle == [phase |-> "idle", resume |-> "ready", after |-> "ready", prog |-> <<>>, second |-> <<>>,
         protected |-> FALSE, mode |-> 0, entry |-> FALSE, mods |-> {}, taps |-> <<>>,
         escaped |-> FALSE, neutral |-> FALSE, toggled |-> FALSE, alt |-> FALSE,
         holds |-> <<>>, transient |-> <<>>, result |-> "none"]

------------------------------------------------------------------------------
\* The report

Leases(s) == ToSet(s.eng.holds) \cup ToSet(s.eng.transient)
Owned(s) == {k \in Keys : s.ledger[k] > 0}

\* What the host makes of a report: Caps Lock toggles on its press; an entry
\* opens with its trigger, or with Option on macOS, and is closed by its last
\* key, by Escape, or on macOS by Option going up.
HostReads(s, keys, mods) ==
  LET fresh == keys \ s.report
      opens == IF s.eng.mode = MacOS THEN s.eng.entry /\ Alt \in mods ELSE Trigger \in fresh
      closes == IF s.eng.mode = MacOS THEN Alt \notin mods ELSE {Commit, Esc} \cap fresh # {}
  IN [s EXCEPT !.report = keys, !.edges = @ \cup fresh,
               !.caps = IF Caps \in fresh THEN ~@ ELSE @,
               !.open = opens \/ (@ /\ ~closes),
               !.garbled = @ \/ (s.open /\ Digit \in fresh /\ s.eng.mode = Linux /\ s.caps)]

\* send_keyboard_report through the key filter and the modifier override.
\* `capture`: what live owners hold becomes suppressed.
SendCapturing(s, capture) ==
  LET ordinary == Owned(s) \ Mods
      captured == IF capture THEN ordinary ELSE s.suppressed
      kept == IF s.eng.protected THEN captured ELSE captured \cap ordinary
      keys == (IF s.eng.protected THEN {} ELSE ordinary \ kept) \cup (Leases(s) \ Mods)
      mods == CASE s.eng.entry -> s.eng.mods
                [] ~s.eng.entry /\ s.eng.protected -> Leases(s) \cap Mods
                [] OTHER -> Owned(s) \cap Mods
  IN [HostReads(s, keys, mods) EXCEPT !.suppressed = kept]
Send(s) == SendCapturing(s, FALSE)

------------------------------------------------------------------------------
\* Leases

Refused(s, k) == s.ledger[k] = Most
Take(s, k) == [s EXCEPT !.ledger[k] = @ + 1]
Drop(s, k) == [s EXCEPT !.ledger[k] = @ - 1]

\* Clean-up under way goes on as it is.
BeginCleanup(s, result) ==
  IF s.eng.phase \in {"idle", "cleanup"} THEN s
  ELSE [s EXCEPT !.eng.phase = "cleanup", !.eng.result = result]
Fail(s) == BeginCleanup(s, "error")

Wait(s, resume) == [s EXCEPT !.eng.phase = "waiting", !.eng.resume = resume]

TakeNext(s, k) ==
  IF s.refused \/ Refused(s, k) THEN [s EXCEPT !.refused = TRUE]
  ELSE Send(Take([s EXCEPT !.eng.transient = Append(@, k)], k))

\* A refused chord keeps the keys it took for clean-up to give back.
\* Mutant: it forgets them.
AcquireAllForgetting(s, keys) ==
  LET taken[i \in 0 .. Len(keys)] == IF i = 0 THEN s ELSE TakeNext(taken[i - 1], keys[i])
      all == taken[Len(keys)]
  IN IF all.refused THEN [all EXCEPT !.eng.transient = <<>>] ELSE all
AcquireAll(s, keys) ==
  LET taken[i \in 0 .. Len(keys)] == IF i = 0 THEN s ELSE TakeNext(taken[i - 1], keys[i])
  IN taken[Len(keys)]

StartTransient(s, keys, next) ==
  LET t == AcquireAll(s, keys)
  IN IF t.refused THEN Fail(t)
     ELSE Wait([t EXCEPT !.eng.after = next], "release")

ReleaseLast(s) ==
  Send(Drop([s EXCEPT !.eng.transient = Front(@)], Last(s.eng.transient)))

------------------------------------------------------------------------------
\* Starting a macro

\* Every window is checked before the first key: what is held balances, and an
\* entry needs a host that takes one and nothing but modifiers held.
Preflight(steps, mode) ==
  LET Check(c, step) ==
        CASE step.op = "down" -> [ok |-> c.ok /\ step.key \notin c.held, held |-> c.held \cup {step.key}]
          [] step.op = "up" -> [ok |-> c.ok /\ step.key \in c.held, held |-> c.held \ {step.key}]
          [] step.op = "entry" -> [ok |-> c.ok /\ mode # 0 /\ c.held \subseteq Mods, held |-> c.held]
          [] OTHER -> c
      after[i \in 0 .. Len(steps)] ==
        IF i = 0 THEN [ok |-> TRUE, held |-> {}] ELSE Check(after[i - 1], steps[i])
  IN after[Len(steps)]

Passes(steps, mode) == Preflight(steps, mode) = [ok |-> TRUE, held |-> {}]

NeedsUnicode(bank) == \E i \in DOMAIN bank.steps : bank.steps[i].op = "entry"
Protects(bank) == bank.protection = "on" \/ (bank.protection = "auto" /\ NeedsUnicode(bank))

StartWindows(s, bank, mode) ==
  LET t == [s EXCEPT !.eng = [Idle EXCEPT !.phase = "ready", !.prog = bank.steps,
                                          !.mode = IF NeedsUnicode(bank) THEN mode ELSE 0,
                                          !.protected = Protects(bank)]]
  IN IF Protects(bank) THEN Wait(Send(t), "ready") ELSE t

------------------------------------------------------------------------------
\* A Unicode entry

Tap(keys, mods) == [keys |-> keys, mods |-> mods]
UnicodeTaps(mode, caps) ==
  LET around == IF caps THEN <<Tap(<<Caps>>, {})>> ELSE <<>>
  IN IF mode = MacOS THEN <<Tap(<<Digit>>, {Alt})>>
     ELSE around \o <<Tap(<<Trigger>>, {}), Tap(<<Digit>>, {}), Tap(<<Commit>>, {})>> \o around

StartUnicode(s) ==
  LET t == [s EXCEPT !.eng.taps = UnicodeTaps(s.eng.mode, s.eng.mode = Linux /\ s.caps),
                     !.eng.escaped = FALSE, !.eng.neutral = FALSE,
                     !.eng.entry = TRUE, !.eng.mods = {}]
      u == [Send(t) EXCEPT !.eng.mods = {Alt}]
  IN CASE s.eng.mode = 0 -> Fail(s)
       [] s.eng.mode \notin {0, MacOS} -> Wait(Send(t), "press")
       [] s.eng.mode = MacOS /\ Refused(u, Alt) -> Fail(u)
       [] OTHER -> Wait(Send(Take([u EXCEPT !.eng.alt = TRUE], Alt)), "press")

UnicodePress(s) ==
  IF s.eng.taps = <<>> THEN [s EXCEPT !.eng.phase = "finish"]
  ELSE LET tap == Head(s.eng.taps)
           t == StartTransient(Send([s EXCEPT !.eng.taps = Tail(@), !.eng.mods = tap.mods]), tap.keys, "press")
       IN IF tap.keys[1] = Caps /\ t.eng.phase # "cleanup" THEN [t EXCEPT !.eng.toggled = ~@] ELSE t

\* Mutant: nothing remembers that it was sent.
NeutralAgain(s) ==
  LET t == [s EXCEPT !.eng.mods = {}]
  IN Send(IF t.eng.alt THEN Drop([t EXCEPT !.eng.alt = FALSE], Alt) ELSE t)

\* One neutral report on its own, before the live modifiers return.
Neutral(s) ==
  LET t == [s EXCEPT !.eng.mods = {}, !.eng.neutral = TRUE]
  IN Send(IF t.eng.alt THEN Drop([t EXCEPT !.eng.alt = FALSE], Alt) ELSE t)
Restored(s) == Send([s EXCEPT !.eng.entry = FALSE])

------------------------------------------------------------------------------
\* One scan

\* Mutant: the neutral report goes out without the capture.
FinishUncaptured(s) ==
  IF s.eng.protected THEN Send([Send(s) EXCEPT !.eng = Idle]) ELSE [s EXCEPT !.eng = Idle]

\* What live owners still hold is captured before they show again.
Finish(s) ==
  IF s.eng.protected THEN Send([SendCapturing(s, TRUE) EXCEPT !.eng = Idle]) ELSE [s EXCEPT !.eng = Idle]

\* A usage is held once; its place closes up when it is let go.
Hold(s, k) ==
  IF k \in ToSet(s.eng.holds) \/ Refused(s, k) THEN Fail(s)
  ELSE Wait(Send(Take([s EXCEPT !.eng.holds = Append(@, k)], k)), "ready")
LetGo(s, k) ==
  IF k \notin ToSet(s.eng.holds) THEN Fail(s)
  ELSE LET at == CHOOSE i \in DOMAIN s.eng.holds : s.eng.holds[i] = k
       IN Wait(Send(Drop([s EXCEPT !.eng.holds = RemoveAt(@, at)], k)), "ready")

\* `loads`: the next window comes when the step begins one.
ExecuteReady(s, loads) ==
  IF s.eng.prog = <<>> THEN IF s.eng.holds = <<>> THEN Finish(s) ELSE Fail(s)
  ELSE LET step == Head(s.eng.prog)
           t == [s EXCEPT !.eng.prog = Tail(@)]
       IN IF step.window /\ ~loads THEN Fail(s)
          ELSE CASE step.op = "down" -> Hold(t, step.key)
                 [] step.op = "up" -> LetGo(t, step.key)
                 [] step.op = "tap" -> StartTransient(t, step.keys, "ready")
                 [] step.op = "char" ->
                      StartTransient([t EXCEPT !.eng.second = step.second], step.keys,
                                     IF step.second = <<>> THEN "ready" ELSE "second")
                 [] step.op = "entry" -> StartUnicode(t)
                 [] step.op = "delay" -> Wait(t, "ready")

SecondStroke(s) == StartTransient([s EXCEPT !.eng.second = <<>>], s.eng.second, "ready")

ReleaseTransients(s) ==
  LET less[n \in 0 .. Len(s.eng.transient)] == IF n = 0 THEN s ELSE ReleaseLast(less[n - 1])
      t == less[Len(s.eng.transient)]
  IN Wait(IF t.eng.entry /\ t.eng.mode # MacOS THEN Send([t EXCEPT !.eng.mods = {}]) ELSE t, t.eng.after)

\* Mutant: the entry is left as it stands.
UnwindAtOnce(s) == IF s.eng.neutral THEN Restored(s) ELSE Wait(Neutral(s), "cleanup")

\* Escape on Windows and Linux, Caps Lock back, then neutral.
Unwind(s) ==
  CASE ~s.eng.escaped /\ s.eng.mode # MacOS ->
         StartTransient(Send([s EXCEPT !.eng.escaped = TRUE, !.eng.mods = {}]), <<Esc>>, "cleanup")
    [] (s.eng.escaped \/ s.eng.mode = MacOS) /\ s.eng.toggled ->
         StartTransient(Send([s EXCEPT !.eng.toggled = FALSE, !.eng.mods = {}]), <<Caps>>, "cleanup")
    [] OTHER -> IF s.eng.neutral THEN Restored(s) ELSE Wait(Neutral(s), "cleanup")

\* One lease a scan: a tap's, then the entry unwound, then what the macro holds.
CleanupOne(s) ==
  CASE s.eng.transient # <<>> -> ReleaseLast(s)
    [] s.eng.transient = <<>> /\ s.eng.entry -> Unwind(s)
    [] s.eng.transient = <<>> /\ ~s.eng.entry /\ s.eng.holds # <<>> ->
         Send(Drop([s EXCEPT !.eng.holds = Front(@)], Last(s.eng.holds)))
    [] OTHER -> Finish(s)

Transition(s, loads) ==
  CASE s.eng.phase = "waiting" -> [s EXCEPT !.eng.phase = s.eng.resume]
    [] s.eng.phase = "ready" -> ExecuteReady(s, loads)
    [] s.eng.phase = "release" -> ReleaseTransients(s)
    [] s.eng.phase = "second" -> SecondStroke(s)
    [] s.eng.phase = "press" -> UnicodePress(s)
    [] s.eng.phase = "finish" -> Wait(Neutral(s), "restore")
    [] s.eng.phase = "restore" -> Wait(Restored(s), "ready")
    [] s.eng.phase = "cleanup" -> CleanupOne(s)

------------------------------------------------------------------------------
\* Steps

Now == [st EXCEPT !.edges = {}]

Init ==
  /\ \E caps \in BOOLEAN :
       st = [eng |-> Idle, ledger |-> [k \in Keys |-> 0], live |-> [k \in LiveKeys |-> 0],
             report |-> {}, suppressed |-> {}, refused |-> FALSE,
             caps |-> caps, capsWas |-> caps, open |-> FALSE, garbled |-> FALSE, edges |-> {}]
  /\ \E bank \in Programs : slot = [bank |-> bank, invalid |-> FALSE, moved |-> FALSE]

\* `edges` keeps what the host saw pressed and let go within the step.
Becomes(s) == st' = [s EXCEPT !.edges = @ \ s.report, !.refused = FALSE]

\* macro_payload_engine_scan; a wait ends at some scan.
Scan(loads) ==
  /\ st.eng.phase # "idle"
  /\ Becomes(Transition(Now, loads))
  /\ UNCHANGED slot

\* An EEPROM reset cancels what plays.
Cancel ==
  /\ st.eng.phase \notin {"idle", "cleanup"}
  /\ Becomes(BeginCleanup(Now, "cancelled"))
  /\ UNCHANGED slot

KnownInvalid == slot.invalid /\ ~slot.moved

\* A macro key's action. Its slot's windows are decoded and preflighted one
\* after the other; one that does not decode is remembered until the profile
\* changes, one the host refuses is not.
Play(mode) ==
  LET tries == st.eng.phase = "idle" /\ ~KnownInvalid
      fails == tries /\ ~slot.bank.decodes /\ Preflight(slot.bank.steps, mode).ok
      starts == tries /\ slot.bank.decodes /\ slot.bank.steps # <<>> /\ Passes(slot.bank.steps, mode)
  IN /\ slot' = [slot EXCEPT !.moved = FALSE, !.invalid = KnownInvalid \/ fails]
     /\ Becomes(IF starts THEN StartWindows(Now, slot.bank, mode) ELSE Now)

\* Another profile runs: only while the engine is idle.
Publish(bank) ==
  /\ st.eng.phase = "idle"
  /\ slot' = [slot EXCEPT !.bank = bank, !.moved = TRUE]
  /\ st' = Now

\* The rest of the keyboard takes and returns a usage: keys pressed before,
\* held actions, timers and delayed taps. A report goes with the first and the last.
LiveTake(k) ==
  /\ st.live[k] < LiveMost[k] /\ st.ledger[k] < Most
  /\ LET t == Take([Now EXCEPT !.live[k] = @ + 1], k)
     IN Becomes(IF st.ledger[k] = 0 THEN Send(t) ELSE t)
  /\ UNCHANGED slot
LiveDrop(k) ==
  /\ st.live[k] > 0
  /\ LET t == Drop([Now EXCEPT !.live[k] = @ - 1], k)
     IN Becomes(IF st.ledger[k] = 1 THEN Send(t) ELSE t)
  /\ UNCHANGED slot

Next ==
  \/ \E loads \in BOOLEAN : Scan(loads)
  \/ Cancel
  \/ \E mode \in Hosts : Play(mode)
  \/ \E bank \in Programs : Publish(bank)
  \/ \E k \in LiveKeys : LiveTake(k) \/ LiveDrop(k)

\* Weak fairness of Scan, which can run exactly while the engine is not idle:
\* the main loop scans for ever, and every wait is a bounded time.
ScansGoOn == []<>(st.eng.phase = "idle") \/ []<><<\E loads \in BOOLEAN : Scan(loads)>>_vars

Spec == Init /\ [][Next]_vars /\ ScansGoOn

------------------------------------------------------------------------------
\* Properties

\* Once the engine is idle every owner it took has been given back, and no one
\* else's: after a finish, a cancellation, a usage refused half-way through a
\* chord, or an error while cleaning up.  However an entry ends, the host is left
\* outside it with Caps Lock as it was, and its digits are never typed under Caps
\* Lock on Linux.
NothingLeftBehind ==
  /\ st.eng.phase = "idle" =>
        /\ \A k \in Keys : st.ledger[k] = IF k \in LiveKeys THEN st.live[k] ELSE 0
        /\ st.caps = st.capsWas
  /\ ~st.eng.entry => ~st.open
  /\ ~st.garbled

\* The host sees a press only of a usage the macro takes or one somebody
\* presses now: a key that was down before uninterruptible playback is not
\* pressed again when it ends, nor when a later macro uses the same usage.
NoStaleEdge ==
  [][(st'.report \ st.report) \cup st'.edges
       \subseteq ToSet(st'.eng.holds) \cup ToSet(st'.eng.transient)
                  \cup {k \in LiveKeys : st'.live[k] > st.live[k]}]_vars

\* A macro ends, cancelled or not.
MacroEnds == st.eng.phase # "idle" ~> st.eng.phase = "idle"
==============================================================================
