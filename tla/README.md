# Charybdis firmware: specifications, model checks and proofs

The firmware under `src/users/noah` runs on both halves of a split keyboard. It
keeps a *device-resident profile* (key behaviours, combos, macros, lighting,
pointing settings) that a host edits over USB, saves it in flash on both halves,
and runs every key press through a key runtime with ownership ledgers. This
directory holds the TLA+ modules that model it, the TLC runs that check them on
small instances, and the TLAPS proofs. Paths below are relative to
`src/users/noah/lib` unless they say otherwise; `docs/...` is `src/docs/...`.

Contents: [how the system runs](#how-the-system-runs),
[components](#components), [modules](#modules), [runs](#runs),
[disagreements](#disagreements), [fairness](#fairness), [proofs](#proofs),
[limits](#what-is-not-shown), [plan](#plan).

## How the system runs

Almost everything is the QMK main loop. A *matrix scan* polls each component for
one bounded step (`runtime_init.c`, `noah_matrix_scan_user`), then QMK reads the
matrix and delivers key records. USB and split callbacks only copy one frame
into a mailbox, which the next scan takes. The half with the USB cable is the
*master*: it calls the other half, and every call is answered by a callback
there. On the *slave* these callbacks run on a second, higher-priority thread,
which may preempt the main loop between any two instructions. Nothing ever
blocks on flash: a *durable-I/O grant* per scan gives the store at most one step
that programs, and erases run only while the keyboard is quiet.

So the hard behaviours are these: a power loss between any two flash steps; a
call that is lost, repeated, or answered by an old reply, with either half
restarting; the callback thread against the main loop; and, inside the main
loop, long legal sequences of presses, releases, taps and timeouts on shared
state (a modifier, a usage, a layer) that no single test writes down.

## Components

| component | state | operations | modelled in | what makes it correct |
|---|---|---|---|---|
| saved-profile store (`profile/storage/profile_store.c`, `profile_flash_store.c`, `compat/qmk_durable_io.c`) | two flash slots; the open save, its phase, the saved record | boot selection, begin, write, durable begin, commit begin, commit steps, abort | `ProfileStore` | boot selects the last decided record; the saved slot is never touched; a save ends |
| candidate transaction (`profile_candidate_transaction.c`, `profile_candidate_store_backend.c`) | the host's candidate, its admission, its outcome | begin, receive, validate, prepare, commit, activate, cancel, lease | `CandidateApply` | one outcome per candidate; what it took is given back |
| active profile (`active_profile_provider.c`) | the snapshot in use, a pending one, slots lent for a prepare, a working copy | request, cancel, publish at a safe boundary, reuse backing | `ActiveProfile` (in `CandidateApply`) | the bytes a snapshot names are never rewritten under it |
| profile owner (`profile/runtime/profile_owner.c`) | owner state, host barrier, working-copy operations | scan, admit a candidate, boot reconciliation, activation, cancel, edit, save | `CandidateApply`, `TwoHalfSave`, `WorkingCopySync` | each of the above, in one order |
| two-half save (`profile/split/profile_split_reconciler.c`, `profile_split_authority.c`, `profile_other_half_store_backend.c`) | master: push or pull in progress; slave: mailbox, cached reply, received copy | metadata exchange, push, repair, pull, abort, orphan cleanup | `TwoHalfSave`, `OtherHalfStore` | a record is decided once and then only copied; a half alone runs nothing new |
| working copy and its sync (`profile_working_copy.c`, `profile_working_sync.c`, `compat/qmk_profile_working.c`) | RAM copy, session, revision; one-frame mailbox | edit, publish, revert, adopt, replace, settle | `WorkingCopy`, `WorkingCopySync` | one name, one profile; a save changes nothing; the halves meet |
| profile schema and codecs, compiled defaults (`profile/schema/*`, `profile_validator_v1.c`, `compiled_profile_*`) | a check's cursor over a payload | one validation step, encode, look up | `ProfileValidator` and a module per domain | accepts exactly what encoders write; reads nothing behind the end |
| keyboard modifier ownership, owned keycodes, held actions (`state/ownership/keyboard_mod_ownership.c`, `action/owned_keycode.c`, `key/ownership/held_action.c`) | reference counts per modifier and usage, bindings, the report | register, lease, hold, tap, release, suppress, mask | `OwnedOutput` | a modifier or usage is in the report exactly while somebody holds it |
| key runtime: reducer, planning, pending releases, held repeats, front end (`key/runtime/*`) | per key: press token and phase, tap series, leases; the queue of deferred releases | press, release, scan, interruption, plan, drain | `KeyRuntimeCore`, `KeyRuntime` | each press answered once, as the hands timed it, in order |
| record admission (`compat/qmk_record_admission.c`) | the queue of waiting records | admit, capture, replay | `RecordAdmission` | no record lost, doubled or past its own press; no deadlock |
| combo origins (`compat/qmk_combo_origin.c`) | chords seen, outputs pending, active combos | observe, normalise, fire, expire | `ComboOrigin` | each combo event meets its own chord |
| layer ownership (`state/ownership/layer_ownership.c`) | momentary bindings, locks, one-shots, shortcut sets | hold, lock, go to, one-shot, release | `LayerOwnership`, `PointingModes` | a layer is on exactly while owned; nothing shown in between |
| pointing modes and pointer layer policy (`pointing/runtime/*`, `pointing/policy/*`) | active and locked mode, its owners, anchor counts | enter, exit, lock, layer links, auto-mouse | `PointingLinks`, `PointingModes` | a mode ends with its keys; the owned pointer layer stays |
| macros (`macro/macro_payload_run.c`, `macro_slot_provider.c`) | one run: position, taken keys, Unicode entry, report filter | start, step, cancel, clean up | `MacroRun` | what a run took is given back; no key pressed twice |
| macro programs (`macro_payload_parse.c`, `macro_payload_encode.c`, `macro_payload_decode_qmk.c`) | a decoder's pending presses, tap and clean point | compile, encode, decode a window | `MacroProgram` | a macro plays what its bytes ask for |
| domain runtimes of the active profile (`active_profile_key_behavior_runtime.c`, `active_profile_combo_runtime.c`, `profile_macro_provider.c`, `rgb_active_profile_config.c`), key behaviour lookup (`key_behavior_lookup.c`) | the offsets kept of a domain | look a key, step, group, macro up | the domains' modules | an accepted profile is served as it was written |
| shared publication, split runtime sync, receiving side (`state/shared/runtime_publication.h`, `split/runtime_sync.c`) | generation, payload, in place or in two slots | publish, read with bounded attempts | `RuntimePublication` | a copy is one publication and was current; reads end |

Not modelled: the store runtime and the host protocol around the transaction (they
wire the above into one scan step and answer status pages); the sending side of the
split runtime sync; action dispatch and how a key's actions are materialised; key
feedback and how the LED stages paint (rendering); host layouts (generated tables); macro input guard; diagnostics; QMK seams; the
authored keymap; host tools. `PROJECT.json` lists every component with what is left
out of it, and the hazards at their lines with the properties that cover them.

## Modules

Most runs have an `MC...` module that gives the constants their values; `RecordAdmission`
and `WorkingCopySync` get them from the cfg alone. Modules of
one component are below; `...Proofs` modules are under [proofs](#proofs).

### `ProfileStore`, `SavedProfile` - one half's saved profile

Two flash slots, each a header page, three marker cells and payload pages. A save
takes the slot that does not hold the saved record, erases ahead of its writes,
writes the payload and the header, reads everything back, programs the marker
`prepared` (0x3C), and, once told to, `committed` (0x18). Boot reads both slots
and takes the committed one of the higher generation.

`hdr`, `cell`, `page` are the flash; the rest is RAM and goes at `PowerOn`. Each RAM
variable is one field of `noah_profile_store_t` or `noah_profile_flash_store_t`, and
each action one call: `PrepareBegin`, `PayloadWrite`, `DurableBegin`,
`CommitBegin`, `Abort`; the phases of `prepare_commit_step` are `HeaderWrite` ...
`MarkerReadback`; boot selection is three steps; a grant is `GrantBegin` and
`GrantErase`. A call that pieces a page (64 bytes a step) is one action a page,
since the flash only changes a page at a time.

A program leaves its page as it was, whole or junk, whatever it reports; a failed
or cut erase leaves any part of its sector; power may go between any two steps and
inside an erase. A cell is one byte: it lands whole or not (`BitTearing = FALSE`)
or bit by bit (`TRUE`). `SavedProfile` is what the storage promises: one durable
register, replaced at one instant.

### `OwnedOutput` - what the keyboard's report holds, and who holds it

Code: the ledgers above, the native path of `process.c`, `keyboard_mod_policy.c`,
`delayed_action.c`, and the modifiers of a pointing mode. State: the three counts
of each modifier, the two of each usage, the report itself (`real`, `down`), the
bindings, and the keys: `pressed`, edges that wait, presses that were `sent`, the
`event` being processed. The spans during which other code may run are states, not
single steps: a key event between `EventBegin` (which masks modifiers) and its
settlement; a tap between `TapDown` and `TapUp`; a replay between `ReplayBegin`,
which saves and replaces the report's modifiers, and `ReplayEnd`.

What a tap or a macro does inside a replay are steps of its own: taps, a mode
entered or left by a lock or a layer the tap turns, and the holds that the tap first
settles (`noah_key_runtime_settle_pending_fallback_hold`), of keys that hold nothing
yet (`scan_planner.c:311-319`). Edges are not taken in meanwhile and no key is
released: the replay is one call. `ReplayBegin` sends under any modifiers, so it
covers the stored ones of an action replay, none of a masked emit and the present
ones of `begin_preserve_all`. So `ReplayEnd` may put back modifiers whose owners
changed meanwhile. The auxiliary `stray` names them: those that got their first
managed owner, or lost their last, since they were saved and that the saved report
contradicts. One leaves `stray` when it turns again, or outside a replay with its
next change in the report. Nothing reads `stray` but the properties, which except
its members and no others: not a native key's modifiers, not those of owners that
were there all along.

One constant selects what the code also does and the run leaves out, since there the
properties fail (see [disagreements](#disagreements)): `ComboKeys`, keys that are combo
outputs. Left out: diagnostic counters of saturation and underflow (no count
saturates under the assumption that keys are fewer than 253), one-shot modifiers
and Caps Word of QMK. A macro replayed from a held press begins a preserve-all inside
the replay, around the start of the playback only; what it sends is the one tap.

### `RecordAdmission` - records wait behind an undecided tap/hold key

All of `compat/qmk_record_admission.c`, and of the key runtime what admission asks
it and what its answers depend on. A pass is `Scan`, then `Replay` steps until
`TaskEnds`, then the edges the pass read, then `PassEnds`. `Press` and `Release`
deliver an edge, which `Admit` either processes at once or has `Capture` queue,
forcing the oldest out of a full queue. A record carries what it was made under
(`under`, for the properties) and what its timestamp tells the runtime; the ghosts
`decision` and `outOfTurn` say how each key was decided and whether a record went
before ones that should have gone first. Left out:
pending layer taps and the tap-series timing queries, synthetic records (they
bypass admission), passes longer than a millisecond of the clock.

### `KeyRuntimeCore`, `KeyRuntime` - what a press means and when it is sent

`KeyRuntimeCore` has the pure functions: press tokens and their phases, tap series,
leases, the release, scan, tap-series and fallback-hold planners, deferral and the
drain of at most four releases. `KeyRuntime` is the front end that orders
observation, settling, planning, execution and drain around them, with keys,
delays, and a lag between passes. Left out: saved modifiers, feedback, pointing
modes, one-shot layers, `flush_active_keys_except` (no caller),
`flush_foreign_layer_multi_tap`, a held-lifecycle outcome, token ids and their
adoption, overflow of a plan, combo outputs, a keycode that changes with the layer,
admission overload (`RecordAdmission` has it).

### `RuntimePublication` - state one thread publishes and another renders

A "group" is stored in place while its generation is odd; a "slot" is the one of
two copies that the generation does not select. `Begin`, one `Store` a field and
`End` publish; `ReadBegin`, `Observe`, one `Copy` a field, then `Check`, which
commits, tries again or gives up. Either thread may stop between any two fields.
The generation is a `uint8_t` compared for equality: it is modelled modulo `Gens`,
and `2 * During["group"] < Gens /\ During["slot"] < 2` is what the code needs: fewer
than 128 publications during a copy of microseconds, and no second one while a slot
is copied. Other users of the header publish in the same two shapes and are not
modelled.

### `TwoHalfSave`, `OtherHalfStore`, `PairedRecord` - one profile on two halves

`OtherHalfStore` is the storage a half offers the other: operations on a record
that return the set of their outcomes; what `ProfileStore` shows (one durable
register, replaced at one instant or left) is what it takes a commit to be.
`TwoHalfSave` composes two of them with an Apply (`a`), the master's reconciler
(`p`), and the slave's mailbox, cached exchange and last reply (`link`).
`PairedRecord` is what the two halves promise. An Apply is `BeginApply`, the push,
`Decide` and `Commit` on the master, `Authorize`, `PushCommit`, `Confirm` and
`ActivateApply`; a difference seen at a metadata exchange is a repair or a pull.
Each call of the master may be delivered or not, its reply lost, or an earlier one
received instead (`MaxStales`). Deadlines are choices. `Restart` and `MoveCable`
lose all of RAM; a commit under way may have landed or not.

Left out: a role change without a restart; two candidates at once (provisional
descriptors and yielding); ranges the other half already has (`PAYLOAD_REUSE`); a
copy that fails validation; the payload's bytes (one chunk); the host's reasons to
cancel (one action); working-copy sync. The slave never pulls, as in the code.

### `WorkingCopy`, `WorkingCopySync` - unsaved edits on both halves

`WorkingCopy` is one half's RAM copy: BEGIN to publication, Revert, settling,
replacement. `WorkingCopySync` puts two of them on a link: the master's sync
(`Send`, one request at a time, repeated under its sequence number), the other's
mailbox and published reply, adoption of what a restarted master finds there, and a
client's edits, Revert and Save. A lost request or reply is a step that does not
happen; the two-half save is one step (`Writes`) with each half's later
`Changeover`. Left out: the edit-mode record (MODE), the stopped flag, edits of
several splices or pieces, `UINT32_MAX` revisions, capacity results, the keyboard's
own adjustments and automatic saves, session collisions. `slave_matches` ignores
the saved generation, as in the code.

### `CandidateApply`, `ActiveProfile` - an Apply from the client to the keyboard

The candidate's frames (begin, chunk, reuse, validate, commit, abort) one at a time
through the mailbox, the owner's turn with it, the backend's prepare in the store,
the provider's snapshots (`ActiveProfile`), the lease, and the other half's copy as
its own admissions. A payload is two chunks; deadlines are choices; a stopped half
only restarts. Left out: provisional descriptors and yielding, REUSE ranges of the
other half, single-half mode, status pages and error locations, orphan cleanup and
boot steps (`TwoHalfSave`), saves through the transaction (one step of
`WorkingCopySync`). A copy of the other half starts only while nothing else is
admitted (`OtherSaves`).

### `LayerOwnership`, `PointingLinks`, `PointingModes` - layers and pointing modes

One record `board` holds the ledgers, QMK's layer state and its auto-mouse state;
`PointingLinks` has the layer-state hook and the mode transitions that change no
layer, `LayerOwnership` the ledgers, each change with the whole hook behind it, and
`PointingModes` the commands: a step is one effect of the key runtime or one thing
QMK does. `steady` and `entered` are ghosts for "nothing in between". Left out:
reconfiguration (the activation policy holds it back while locks, holds or key
sources exist), slots without a record, the display snapshot, DPI, a key's saved
modifiers, a retargeted auto-mouse, binding overflow, the auto-mouse deferred reset;
double-tap time is a choice (`again`). A restart is one of a mode that runs before
and after the step and that a key ran at either end; a mode its layers run at both
ends may restart within a step over several layers (L5 below).

### `MacroRun` - playing a macro

One bounded transition a scan over the shared ledger: preflight, steps and windows,
Unicode entry and its unwinding, the report filter of uninterruptible playback,
cancellation, errors, clean-up, and the verdict kept about a slot. Left out:
durations (a wait ends at some scan), counters, parsing and layout tables, LED
report lag, text pace, the six-key limit, the input guard; a refusal comes only
from the scaled owner bound `Most`. A macro of the model types neither Caps Lock
itself nor the key that opens an entry (`Plain`): one that does turns Caps Lock or
opens an entry by right, and what it should leave is another question.

### `ComboOrigin` - which chord an output belongs to

Physical edges, QMK's combo buffer, completion and expiry, the cache of outputs, and
QMK's tapping queue behind it. `replaced` and `detained` are ghosts for two of the
disagreements below. Left out: participation and source layers, keys shared by
several combos, equal combo keycodes, sequence wrap, feedback bitmaps.

### `ProfileValidator` and the domains - which bytes are a profile

`ProfileValidator` is the state machine of a check: one step at a time over a payload
whose cells are chosen when they are read, or one the firmware's own encoders wrote.
`BehaviorRows`, `ComboRows`, `SettingsDomain`, `PointingSlots`, `MacroBank`,
`RgbDomain` and `ProfileBlob` are a domain's step, encoder and lookups. Bytes are
abstracted to the cells the code reads at once, so a truncation falls between cells;
the envelope's payloads are abstracted to whether they fit and what they refer to,
its checksum to a flag. Left out: error locations, the action codec's numbers,
three- and four-byte characters, whole and structure modes inside a domain.

The same modules have what the firmware then reads of an accepted payload. In
`BehaviorRows` a key's view comes from the live profile, by halves where the rows'
offsets were kept and from the first otherwise (`LiveRow`, `LiveStep`), or from the
build's table (`ConfigRow`, `ConfigStep`); `RgbDomain` has what each LED stage gets,
`ComboRows` the materialized table, `MacroBank` the search for a slot by zero bytes.
`MacroProgram` is a macro from its text to its keys: compiler, encoder, and the decoder
that folds presses, a tap and their releases into one step and cuts long macros into
windows at clean points. Strings of commands are abstracted to their pieces; a name
nothing has is `NoKey`.

## Runs

All twelve runs pass, each within five minutes.

| run | instance | distinct states | properties |
|---|---|---|---|
| `profile_store` | payloads of 1 and 2 pages, sectors of 5 pages, 2 generations, fair | 73 053 | what boot selects is the last decided record, through failures, aborts and power cuts between any two cells (a cell lands whole) and any two steps (`SavedIsAuthority`, `SlotsNeverConflict`, `SavedSlotUntouched`); the store implements `SavedProfile`; a save ends (`SaveSettles`) |
| `owned_output` | 2 modifiers, 1 usage, 2 keys, every keycode of them, 2 waiting edges | 2 480 478 | the report is exactly what is held, and the ledgers count exactly the holders, with modes, holds and taps inside replays (`NoOwnerClearsAnother`, `NothingOutlivesItsOwners`, `CountsMatchOwners`) |
| `admission` | two tap/hold keys, a modifier, a combo output, queue of 2, 2 edges a pass, fair | 336 676 | no record lost or doubled (`EveryPressEndsOnce`); it meets what it was pressed under (`PressMeetsWhatWasDown`); the queue moves (`QueueKeepsMoving`) |
| `publication` | 2 packets of 2 fields, 4 generations, 2 attempts, fair | 416 000 | a copy is one current packet (`CopyWasCurrent`); reads end and the last is shown (`LatestIsShown`) |
| `two_half_save` | 1 payload, 2 generations, 1 restart, 1 flash failure, 1 stale reply, symmetric halves | 287 779 | the two saved records only move together (`ImplementsPairedRecord`); no half runs a record alone (`NothingActivatesAlone`) |
| `key_runtime` | 2 keys with 14 pairs of behaviours, 3 presses, delays and lags of the main loop, fair | 653 983 | each press is answered once, as the hands timed it, in order, and nothing stays held (`AnsweredOnce`, `OutcomeFollowsTheHands`, `OwnOutputComesFirst`, `NothingLeftHeld`, `ComesToRest`) |
| `working_copy_sync` | 2 changes, 1 Save, 1 fault, splices that add or drop, fair | 516 065 | one name, one profile (`SameNameSameBytes`); a save changes nothing (`SavesChangeNothing`); no request runs twice (`NothingRunsTwice`); the halves meet (`HalvesMeet`) |
| `layer_ownership` | 3 layers, a layer key, a shortcut key, 2 modes with 3 keys, 2 profiles | 73 796 | a layer is on exactly while owned (`LayersMatchOwners`), with nothing in between (`NothingInBetween`); a mode ends with its keys (`ModeEndsWithItsKeys`); the owned pointer layer stays (`OwnedPointerStays`) |
| `macro_run` | 7 programs, 4 host modes, live owners of 3 usages, at most 2 owners a usage, fair | 42 910 | a run gives back what it took (`NothingLeftBehind`) and presses nothing anew (`NoStaleEdge`); it ends (`MacroEnds`) |
| `combo_origin` | two chords of two keys with one output, 4 presses, cache of 4 | 626 339 | an output belongs to its chord from press to release (`PressMeetsItsChord`, `ReleaseEndsItsChord`, `NothingSticks`) |
| `candidate_apply` | 1 transaction id, profiles of 2 chunks, 3 generations, 2 troubles, fair | 321 690 | bytes stay under their names (`NamedBytesStay`); nothing leaks (`NothingLeaks`); a decision stands (`DecisionStands`); what was taken is given back (`GivenBack`) |
| `profile_schema` | payloads of at most 5 to 18 cells in each of 8 domains, macros of up to 5 tokens | 249 725 | a check accepts exactly what encoders write and reads nothing behind the end (`AcceptsExactlyWhatIsWritten`); what was accepted is what keys, lights, combos and macros get (`ServedAsWritten`) |

Every property has a mutant in `PROJECT.json`: a plausible bug in one definition (a
dropped guard, a missing reset, a swapped order) with which TLC finds it violated.
The mutated operators stand in the modules, marked *Mutant*.

Why these bounds are enough.

- `ProfileStore`: a two-page payload puts a page into the second sector, so erasing
  ahead, reading pages still to erase and stale pages after a shorter save all
  happen; a second generation makes a save over a slot that holds an older record.
  The marker has one bit of each kind that its three values tell apart. The
  generation stops at `MaxGen`, as the code refuses to save at `UINT32_MAX`. A
  payload whose envelope is malformed is left to the proofs, which cover it.
- `OwnedOutput`: two keys on one modifier are the smallest overlap; `MaxCount` 5 is
  two keys plus the three other owners a part can have, so a count that leaks would
  saturate. Two waiting edges let a release arrive before its press was processed.
  The one mode holds the modifier both keys' keycodes take, so a replay may part it
  from the mode while a key, a lease or nobody else holds it.
- `RecordAdmission`: two tap/hold keys are one that waits for another, and a queue of
  2 lets the second and a press behind it wait, and fires the overload path. Two edges
  a pass let a release come in the very pass that decides the key it would have
  waited for. Both go out of turn, which a press may notice; the ghost `outOfTurn`
  marks them, and one edge a pass leaves only the overload (`OnlyAFullQueue`). A
  queue of 3 (2 082 160 states, safety only) held as well.
- `RuntimePublication`: `Gens = 4`, `During = 1` is the tightest the assumption
  allows; with it violated TLC finds the mixture, and the proof covers every size.
- `TwoHalfSave`: two generations are one Apply over another; one restart, one fault
  and one stale reply may fall at any step. The proof covers any number of each.
- `KeyRuntime`: two keys, in fourteen pairs of the behaviours a row can have (tap and
  hold rows, tap series, layer and plain keys); three presses are the first with a
  press nested in a nested one, or a series that a second key interrupts.
- `WorkingCopySync`: two changes are the first with an edit made on another's base;
  "whole" edits are left to the proof, and 862 820 states with them were checked
  once without the liveness property.
- `PointingModes`: the two profiles have between them a scrolling and a typing mode,
  every kind of link end, a mode whose key turns on the layer that starts it, a
  layer both keys turn on, and a sniping layer. All four properties are proved for
  every number of layers, keys and modes.
- `MacroRun`: `Most = 2` lets a usage be refused half-way through a chord; the seven
  programs have each step, window and protection, and a dead key. Its safety is proved
  for every program, host and limit.
- `ComboOrigin`: two chords with the same output are the smallest confusion; four
  presses complete both and press one of them again.
- `CandidateApply`: the third generation comes with the other half's newer record
  during the client's; two troubles are a fault during the clean-up of a fault. Two
  transaction ids (1 153 502 states, safety only) held as well.
- `ProfileSchema`: each limit (rows, steps, inputs, names, groups) is 1 to 3 and can
  be exceeded by one; a payload can be one cell longer than the longest legal one.
  Macros of up to five strokes of three keys have every way a tap can stand among
  presses and releases, matched or not; a window of 14 bytes is cut once or twice.

`CHECK_DEADLOCK FALSE` in `ProfileStore` (generations run out), `TwoHalfSave` and
`CandidateApply` (a half may stop for good, and restarts are bounded),
`WorkingCopySync` (changes and faults run out) and `ProfileSchema` (a check ends). The
symmetry of `TwoHalfSave` is sound: the master is state, and the run checks safety.

## Disagreements

Where the code, read for a model, does other than a document or comment of the
repository says. None has a run of its own: the instances leave the case out, or a
ghost exempts it, and the text here says which.

Storage and the two halves:

- *Torn abort.* `profile_store.c:859` programs 0x00 into the cell after a prepared
  marker (0x3C). Cut short bit by bit (`BitTearing`), it may clear only the bits that
  turn 0x3C into 0x18, `committed`; `docs/spec/device-resident-profile.md:254-256`
  says a half-programmed cell reads as no marker a save writes.
- *Rejected copy keeps the storage.* A second Apply that reaches the slave before it
  activated the first copy is rejected by `profile_other_half_store_backend.c:211`
  without giving the admission back: that half never runs the record it saved and
  refuses later copies until a restart. Lines 55-59 of that file say a rejected copy
  gives it back.
- *Boot activation.* Admitting a copy clears `saved_available`
  (`profile_candidate_store_backend.c:100`) on a half that still reconciles its booted
  record; if the copy is then aborted or expires, that record cannot be activated and
  the owner stops (`profile_owner.c:594`).
  `docs/spec/logical-profile-transaction-v1.md:192-193` says such a half boots its
  previous saved profile.
- A stale reply (a chunk's ACK at full length read as that of `PREPARE_DURABLE`) lets
  the master decide with the slave not durably prepared; the records still only move
  as `PairedRecord` allows. A slave restart while the copy is rebuilt after the
  decision stops the owner instead of sending the copy again
  (`logical-profile-transaction-v1.md:197-200`). An abort with a page still buffered
  programs twice in one grant (`profile_flash_store.c:198`; `.h:120-122` says one).

The client's Apply (`CandidateApply`):

- The wedge: the copy stops, the lease's cancel waits for the push's abort, the client
  sends any frame, the push goes, and expiry then answers MAILBOX_BUSY for ever while
  the frame waits for the host's turn (`profile_candidate_transaction.c:658-660`,
  `profile_owner.c:655`, against `docs/spec/profile-wire-v1/candidate-transfer.md:319-320, 342-343`).
  `GivenBack` excludes it by name (`Wedged`).
- A BEGIN that fails in the storage leaves the transaction rejected but held: the
  lease, which needs the admission, never ends it; only an ABORT of that id does
  (`candidate-transfer.md` near 327). A client that uses a transaction id again may be
  answered OK to a COMMIT of the earlier one. A copy that awaits activation while the
  other half has a newer record stays BUSY.

Keys:

- F1: a tap/hold key tapped behind another one that is undecided becomes a hold
  (`qmk_record_admission.c:144`, `docs/guide/keys.md:154-160`). F2: the order of a
  fallback hold (`projection.c:29`, `keys.md:137-140`). F3: a fallback key's press held
  by admission and let go exactly at its term is swallowed. F4: a settled idle key
  still blocks deferred releases (`state_query.c:160-216`,
  `docs/architecture/key-press.md:130`). F5: a ReleaseHold key is marked before a
  queued earlier press is delivered. F6: of two tap/hold keys and a press held behind
  them, let the second one's press be replayed past its term and its release come in
  that same pass: its hold comes on and ends within its own release, before the press
  behind it goes out, which the timestamps put inside the hold (`keys.md`, "timing
  follows your fingers"); the ghost value "brief" marks it. And a release exactly at the term counts as late
  by one millisecond's equality.
- A combo's modifier has no owner (`process.c:263` settles key events only), so another
  owner's release clears it; `keyboard_mod_ownership.h:7` says releasing one owner does
  not clear another. `OwnedOutput` shows it with a non-empty `ComboKeys`.
- A delayed tap that locks a pointing mode off inside its replay
  (`delayed_action.c:15-22`) has the mode's modifier put back without an owner;
  `docs/architecture/pointer-report.md:165` says leaving a mode releases it. A hold that
  a replay's tap settles, or a mode it enters, has its modifier taken out again while
  it holds it. Either stays so until another owner of that modifier comes and goes, or
  its bit changes. The model does both: they are what `stray` holds after `ReplayEnd`,
  and without `stray` in them `NoOwnerClearsAnother` and `NothingOutlivesItsOwners`
  fail on the run's own instance.
- C1: a combo pressed again while its earlier output waits behind an undecided tap/hold
  key takes that completion's slot (`qmk_combo_origin.c:443-485`, comment 72-75; ghost
  `replaced`). C2: a release held by QMK's tapping queue is captured after another
  member was let go, and two equal outputs' releases swap (comment 183-189; ghost
  `detained`). C3: with the fire term equal to the wait, `deadline_crossed` set in a
  pass whose own events press another combo key is not reset (comment 565-568; the
  instance has 0 < 1). C4: a fifth output at once finds the cache full and its release
  frees nothing (the instance has fewer).

Layers and modes:

- L1: a mode held and then locked gets no synthetic anchor
  (`pointing_mode_lifecycle.c:57`, the table of `pointer-report.md`). L2: a layer-started
  mode started outside the hook does not strip an anchored Pointer
  (`pointing_mode_state.c:67`, ADR-0062). L3: a typing mode's activation does not turn
  off an anchored pointer layer. L4: a held Pointer layer stripped when a typing mode's
  own layers go off is not restored until the next hook or pointing task.
  L5: a mode that its layers run before and after a Move to or a lock of several layers
  may stop and start in between, when the step passes a set of layers that links another
  mode; no document says it does not, and `NothingInBetween` is about modes a key ran.

Macros:

- While an earlier owner's press of a usage is suppressed and an interruptible macro
  holds the same usage, a key pressed anew on it may stay out of the report until one of
  them lets go; `NothingLeftBehind` speaks of what is left when the run has ended.
- Boundaries at which the compiler and the reader of macros differ: a tap of 16 keys at
  once compiles to more steps than the reader takes, and a tap of a key that an open hold
  has down (`{+a}{a,b}x{-a}`) compiles and is refused when it is read.

## Fairness

Safety properties assume none. A liveness property assumes what the main loop does,
and no more:

- *The main loop goes on* (weak fairness of a scan's step): `TaskStep`-like actions
  that `noah_matrix_scan_user` calls on every scan, whatever else happens:
  `CommitStep` of `ProfileStore`, a pass of `RecordAdmission`, `Advances`,
  `TakesFrame` and `OtherCopy` of `CandidateApply`, both halves' loops of
  `WorkingCopySync`, `ScansGoOn` of `MacroRun`; in `KeyRuntime` the loop catches up
  and falls behind again and again.
- *A grant comes* (`GrantBegin`, `GrantErase` of `ProfileStore`): the durable-I/O
  window opens when the keyboard is quiet, so that it is quiet again and again is an
  assumption about whoever types, and a save waits exactly that long.
- *Deadlines pass* (a term of `RecordAdmission`, `LeaseEnds`): a timer that is armed
  fires. A term is strongly fair, since edges may disarm and arm it in between.
- *The link is not lost for ever* (strong fairness of the other half's scan and the
  master's `Decide` in `WorkingCopySync`): a request sent again and again is answered
  in the end; `Faults` bounds how many are lost.
- *The publisher finishes, and the renderer reads again* in `RuntimePublication`: a
  callback ends, a frame is drawn again; `LatestIsShown` holds if publications stop.
- *The client stops sending* (`Quiet` in `CandidateApply`): a host may keep a half busy
  for ever by right.

`OwnedOutput`, `TwoHalfSave`, `ComboOrigin`, `PointingModes` and `ProfileSchema` have
no liveness property. Nothing in them waits: an operation is one step, or what it
waits for is a person.

## Proofs

Eight modules hold the proofs that TLAPS checks, for every value of the constants
their assumptions allow. Each follows one plan: an inductive invariant,
true of the initial states, one lemma per action (or per kind of action) that the action keeps
it, and the properties from it. Where a step is a chain of nested calls, each call
has an *effect*, a relation between the state before and after it, and the effects
are chained; so a new action that is built from the same calls needs few new lemmas.

| module | theorems | the argument |
|---|---|---|
| `ProfileStoreProofs` | `TypeCorrect`, `SavedIsAuthorityHolds`, `SlotsNeverConflictHolds`, `SavedSlotUntouchedHolds`, `AuthorityMovesOnDecisionHolds`, `ImplementsSavedProfileHolds` and the lemmas on markers | what each cell may hold in each phase of a save (`CellsOK`, `PhaseOK`), what boot has read so far (`BootOK`), that the slot of the open save is not the saved one (`SlotsOK`), and that pages written are pages wanted (`MediaOK`). For markers that land whole (`~BitTearing`), which is needed: see the torn abort. Each step begins, goes on with, decides or ends a save, and only the marker's landing moves the record boot would select |
| `OwnedOutputProofs` | `TypeCorrect`, `Invariant`, `CountsMatchOwnersHolds`, `NoOwnerClearsAnotherHolds`, `NothingOutlivesItsOwnersHolds` | `Edges`: a key that waits with an even number of edges is as the report has it; `Mask`: what an event masks is no native key's; `Follows`: a modifier or usage is in the report - during a replay, in the saved one (`Base`) - exactly while its counts say so, and a modifier that is astray has a managed owner or its bit, not both (`Apart`). `Mended`: whatever operation turns a modifier or changes its bit leaves the two in step, so it is no longer astray. Without `ComboKeys`, with which the properties fail |
| `AdmissionProofs` | of `RecordAdmission`: `TypeCorrect`, `EveryPress`, `PressMeetsHands`, `OnlyAFullQueue` | `EveryPressEndsOnce` is inductive with the types. A record meets the queue in one of three ways: it is appended, it is a tail's, or it goes at once. `Recalled` says what each held press will meet: the modifiers it was made under will be down, as the counts of the records before it say, and a tap/hold key of then either will be, or was let go as no hold and stays up (`RecallAt`). A release that passes the queue in turn is no modifier's and no hold's, because a key is undecided then |
| `AdmissionProofs` | of `ComboOrigin`: `ComboOriginInvariant`, `PressMeetsItsChordHolds` | the presses on their way - QMK's combo buffer, its tapping queue, record admission - stand in line by the press that completed their chords (`Lined`), and QMK and record admission each pair the oldest entry that has not been paired there. It is the right one: each press on its way has its entry (`Known`, until one takes another's place), an entry that fired and has met no press has it still in QMK's hands (`Candidates`), and each chord about to fire has an entry that waits, once (`Ready`). `Candidates` and `Tallied` (no more entries are paired than presses are past QMK) hold even when an entry lost its place, so that nothing is left of it once the queues are empty and `Known` holds again. The property makes one exception, a combo that took the place of its own earlier completion (`replaced`, C1). Only where QMK fires before a completion's deadline (`FireTerm < Wait`): with the two equal the property fails (C3) |
| `RuntimeProofs` | of `MacroRun`: `EngineAccounted`, `MacroLeavesNothing`, `MacroPressesNothingOld` | `EngineInv`: every usage's count is its owners' (`Board`), with the keys of a tap counted as often as it names them; the host's Caps Lock is turned just when the engine says so, and its entry is closed once the engine has left it or sent what closes it (`Hosted`); what is left of the macro balances with what it holds, and of an entry's taps the last ones are left, in order (`Placed`, `Stands`, `Left`). Every transition is shown to come to such a state and to press nothing but what it then holds (`Done`) |
| `RuntimeProofs` | of `RuntimePublication`: `TypeCorrect`, `CopyWasCurrentHolds` | a copied field is of the generation observed, or the generation has moved and, as it cannot come round during a copy, the check sees it (`GroupCopy`, `SlotCopy`) |
| `TwoHalfSaveProofs` | `TypeCorrect`, `OneHalfAhead`, `Activation`, `Refinement` | equal generations mean equal records, one half is ahead by at most one and only with a record it decided itself (`PairOK`); everything on the way - request, cached exchange, reply, push, copy - names a record that one half has (`LinkOK`, `WorkOK`, `PushOK`, `CopiesOK`, `SeenOK`, `ActiveOK`). A decision is a commit on one half; a copy is one on the other; a restart makes at most one of them |
| `WorkingCopySyncProofs` | `TypeCorrect`, `SameBytes`, `SavesQuiet`, `NeverTwice` | what the master believes of the other half is what it was or is (`ViewOK`), a BEGIN in the mailbox is for a revision the other has not passed (`BeginOK`), pieces received are the master's (`EditOK`), and a name is given once in a session (`NameOK`, `AgreedOK`). Two parts were found by failing proofs: a request other than ADOPT is never older than the master's view, and a BEGIN's base is never newer than the other's revision |
| `CandidateApplyProofs` | `TypeCorrect`, `NamedBytes`, `NoLeak`, `Decision` | who holds a prepare, the storage and the barrier in each state of the transaction (`PrepOK`, `HostOK`, `ReadyOK`), and which slot each snapshot uses (`UseOK`) |
| `PointingModesProofs` | `TypeCorrect`, `LayersFollowOwners`, `NothingBlinks`, `ModesEnd`, `PointerStays` | `LayersOK`, `CountsOK` (by cardinality of the keys) and `ModeOK`, the one source that decides the mode. The effects say what a hook, a loop over layers and a mode command may move; a chain keeps a layer on only if nothing in the middle takes away an owner that both ends have. The hook leaves an owned pointer layer on or taken away (`Shows`): a call that runs none keeps that, and so does a mode command, unless the mode it ends had the layer taken away |

The assumptions, each named `ASSUME` and evaluated by a run of its module: shapes
of the constants (layers are numbered from 1, keys, layers and buffers are finite,
bounds are numbers), markers that one program can move from one to the next
(`MarkersOK`), contents the envelope accepts (`ContentsOK`), no generation that comes
round during a copy (`PublicationAssumption`), special keys of an entry that are
distinct, no modifiers and no live owner's (`KeysAssumption`), programs of steps the
reader decodes (`ProgramsAssumption`), chords with no key in common (`ComboOriginAssumption`), exactly two halves (`Bounds` of
`TwoHalfSave`), payloads of two chunks (`Bounds` of `CandidateApply`). No bound on
edits, restarts, faults, edges in a pass, presses or queue length is used beyond
that it is a number. `OnlyAFullQueue` alone
states one, which is what it is about.

What proving changed in the models: `PointingModes` once counted a restart only for
some actions; the proof asked which mode a step may restart, and the property now
says so for every action (and L5 is what remains). `RecordAdmission` was checked with
one tap/hold key and one edge a pass; the proof asked what else may go past the queue,
which gave `outOfTurn`, "brief" (F6) and an instance with two of each. Loops over a set of layers became
functions over the numbers of the layers. The invariant of `MacroRun` asked what a
step may type for Caps Lock and entries to be the engine's alone, which is now an
assumption (`Plain`) and was tacit in the instance. `ComboOrigin` took a combo's press
out of QMK's buffer with a filter over a sequence, of which the prover knows nothing
for every length; it now takes out the one place it is at (`Without`), and assumes that
no key is in two chords, which `ComboOf` already relied on.

## What is not shown

- *Liveness* (`SaveSettles`, `QueueKeepsMoving`, `LatestIsShown`, `ComesToRest`,
  `HalvesMeet`, `MacroEnds`, `GivenBack`) is checked on the instances only: fairness
  and ENABLED are out of the prover's reach.
- *`KeyRuntime`*: its planners fold over the keys with operators as arguments, and each
  fold's result would need an induction over data. Its five properties are TLC's.
- *`ProfileSchema`*: the checkers are recursive functions over a payload, so what they
  accept for every payload is an induction over data. TLC compares them with the
  encoders for every payload up to the bounds.
- *`ComboOrigin`*: `ReleaseEndsItsChord` and `NothingSticks` are TLC's. Both hold only
  while the cache has room for every output that is held (C4), and how many are held is
  what a queue leaves held once it has been delivered: an induction over its records.
- Every other safety property and refinement that a run checks is a theorem.
- A small instance may miss what needs more keys, layers, generations or faults than
  it has; the bounds above say why each was thought enough, and the proofs cover the
  safety of nine of the twelve runs, and half of a tenth, for every size.
- Durations: a deadline is a choice, or a count of scans. Nothing here says how long
  a scan takes.
- The modules are translations by hand; `PROJECT.json` maps each definition to the
  lines it stands for. A helper of a line or two whose lines a larger definition's
  entry names goes under that entry.

## Plan

1. The host protocol above the transaction (`profile/protocol/*`): mailbox, status
   pages and the store runtime's scan step.
2. The sending side of the split runtime sync, whose receiving side is
   `RuntimePublication`.
3. Key feedback, as a function of the key runtime's state.
