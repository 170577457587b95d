----------------------- MODULE WorkingCopySyncProofs -----------------------
(* What TLAPS proves of the working copies' sync, for any number of changes, *)
(* saves, faults and pieces of a profile: the invariant the link keeps, and  *)
(* from it that one name means one profile, that a save changes nothing and  *)
(* that no answered request runs twice.                                      *)
EXTENDS WorkingCopySync, TLAPS

-----------------------------------------------------------------------------
(* Shapes.  What the bytes of a profile look like is left open: nothing here *)
(* depends on it.                                                            *)

IsSeq(s) == s \in Seq({s[i] : i \in DOMAIN s})

Phases == {"idle", "receiving", "applying", "reverting"}
Edits(e) ==
    [whole : BOOLEAN, total : {e.total}, splice : {e.splice}, staged : {e.staged}, target : Nat]
Prints(p) ==
    [valid : BOOLEAN, rev : Nat, whole : BOOLEAN, splice : {p.splice}, crc : {p.crc}]
Copies(c) ==
    [session : Nat, rev : Nat, active : BOOLEAN, saved : Nat, bytes : {c.bytes}, phase : Phases,
     txn : {c.txn}, lastTxn : {c.lastTxn}, lastResult : {c.lastResult}, settling : BOOLEAN,
     edit : Edits(c.edit), published : Prints(c.published)]
IsCopy(c) == c \in Copies(c) /\ IsSeq(c.edit.staged)

(* A step that changes neither what a half runs nor what it is called.       *)
Kept(c, d) ==
    /\ d.session = c.session /\ d.rev = c.rev /\ d.active = c.active
    /\ d.saved = c.saved /\ d.bytes = c.bytes /\ d.published = c.published

LEMMA CopyTypes ==
  ASSUME NEW c, IsCopy(c)
  PROVE  /\ c.session \in Nat /\ c.rev \in Nat /\ c.saved \in Nat /\ c.edit.target \in Nat
         /\ c.active \in BOOLEAN /\ c.settling \in BOOLEAN /\ c.phase \in Phases
         /\ c.edit.whole \in BOOLEAN
         /\ c.published.valid \in BOOLEAN /\ c.published.rev \in Nat /\ c.published.whole \in BOOLEAN
<1>1. c \in Copies(c)
  BY DEF IsCopy
<1>2. /\ c.session \in Nat /\ c.rev \in Nat /\ c.saved \in Nat
      /\ c.active \in BOOLEAN /\ c.settling \in BOOLEAN /\ c.phase \in Phases
      /\ c.edit \in Edits(c.edit) /\ c.published \in Prints(c.published)
  BY <1>1 DEF Copies
<1>3. c.edit.target \in Nat /\ c.edit.whole \in BOOLEAN
  BY <1>2 DEF Edits
<1>4. c.published.valid \in BOOLEAN /\ c.published.rev \in Nat /\ c.published.whole \in BOOLEAN
  BY <1>2 DEF Prints
<1> QED
  BY <1>2, <1>3, <1>4

LEMMA NothingStaged == ASSUME NEW s, s = <<>> PROVE IsSeq(s)
BY DEF IsSeq

(* One more element, whatever it is.                                         *)
LEMMA SeqAppend ==
  ASSUME NEW s, IsSeq(s), NEW e
  PROVE  /\ IsSeq(Append(s, e)) /\ Len(s) \in Nat /\ Len(Append(s, e)) = Len(s) + 1
         /\ \A i \in 1 .. Len(s) : Append(s, e)[i] = s[i]
         /\ Append(s, e)[Len(s) + 1] = e
<1> DEFINE S == {s[i] : i \in DOMAIN s} \cup {e}
           t == Append(s, e)
<1>2. s \in Seq(S) /\ e \in S
  BY DEF IsSeq
<1> HIDE DEF S
<1>3. t \in Seq(S)
  BY <1>2
<1>5. /\ Len(s) \in Nat /\ Len(t) = Len(s) + 1
      /\ \A i \in 1 .. Len(s) : t[i] = s[i]
      /\ t[Len(s) + 1] = e
  BY <1>2
<1> HIDE DEF t
<1>4. IsSeq(t)
  BY <1>3 DEF IsSeq
<1> QED
  BY <1>4, <1>5 DEF t

LEMMA SeqDomain ==
  ASSUME NEW s, IsSeq(s)
  PROVE  Len(s) \in Nat /\ DOMAIN s = 1 .. Len(s)
BY DEF IsSeq

-----------------------------------------------------------------------------
(* What each operation makes of a copy.                                      *)

LEMMA BootedIs ==
  ASSUME NEW session \in Nat, NEW saved \in Nat, NEW bytes
  PROVE  LET d == Booted(session, saved, bytes)
         IN  /\ IsCopy(d) /\ d.session = session /\ d.rev = 0 /\ ~d.active /\ d.saved = saved
             /\ d.bytes = bytes /\ d.phase = "idle" /\ ~d.settling /\ ~d.published.valid
<1> DEFINE d == Booted(session, saved, bytes)
<1>1. /\ d.session = session /\ d.rev = 0 /\ ~d.active /\ d.saved = saved
      /\ d.bytes = bytes /\ d.phase = "idle" /\ ~d.settling /\ ~d.published.valid
      /\ d.edit.staged = <<>>
  BY DEF Booted, NotPublished, NoEdit
<1>2. d \in Copies(d)
  BY DEF Booted, NotPublished, NoEdit, Copies, Edits, Prints, Phases
<1>3. IsSeq(d.edit.staged)
  BY <1>1, NothingStaged
<1> QED
  BY <1>1, <1>2, <1>3 DEF IsCopy

LEMMA ClearIs ==
  ASSUME NEW c, IsCopy(c)
  PROVE  LET d == ClearEdit(c)
         IN  /\ IsCopy(d) /\ Kept(c, d) /\ d.phase = "idle" /\ d.settling = c.settling
             /\ d.edit = NoEdit
<1> DEFINE d == ClearEdit(c)
<1>1. d = [c EXCEPT !.txn = 0, !.edit = NoEdit, !.phase = "idle"]
  BY DEF ClearEdit
<1>2. c \in Copies(c)
  BY DEF IsCopy
<1> HIDE DEF d
<1>3. Kept(c, d) /\ d.phase = "idle" /\ d.settling = c.settling /\ d.edit = NoEdit
  BY <1>1, <1>2 DEF Copies, Kept
<1>4. d \in Copies(d)
  BY <1>1, <1>2, <1>3 DEF Copies, Edits, NoEdit, Phases
<1>5. IsSeq(d.edit.staged)
  <2>1. d.edit.staged = <<>>
    BY <1>3 DEF NoEdit
  <2> QED
    BY <2>1, NothingStaged
<1> QED
  BY <1>3, <1>4, <1>5 DEF IsCopy, d

(* An edit that ends without being applied leaves the copy as it was.        *)
LEMMA FinishIs ==
  ASSUME NEW c, IsCopy(c), NEW r
  PROVE  LET d == Finish(c, r)
         IN  IsCopy(d) /\ Kept(c, d) /\ d.phase = "idle" /\ ~d.settling
<1> DEFINE b == ClearEdit(c)
           d == Finish(c, r)
<1>1. d = [b EXCEPT !.settling = FALSE, !.lastTxn = c.txn, !.lastResult = r]
  BY DEF Finish
<1>2. IsCopy(b) /\ Kept(c, b) /\ b.phase = "idle"
  BY ClearIs
<1> HIDE DEF d, b
<1>3. b \in Copies(b) /\ IsSeq(b.edit.staged)
  BY <1>2 DEF IsCopy
<1>4. Kept(b, d) /\ d.phase = "idle" /\ ~d.settling /\ d.edit = b.edit
  BY <1>1, <1>2, <1>3 DEF Copies, Kept
<1>5. d \in Copies(d)
  BY <1>1, <1>3 DEF Copies
<1> QED
  BY <1>2, <1>3, <1>4, <1>5 DEF IsCopy, Kept, d

(* A change of the fields a request or a scan sets, all else as it was.      *)
LEMMA PhaseIs ==
  ASSUME NEW c, IsCopy(c), NEW p \in Phases
  PROVE  LET d == [c EXCEPT !.phase = p]
         IN  IsCopy(d) /\ Kept(c, d) /\ d.phase = p /\ d.settling = c.settling /\ d.edit = c.edit
<1> DEFINE d == [c EXCEPT !.phase = p]
<1>1. c \in Copies(c) /\ IsSeq(c.edit.staged)
  BY DEF IsCopy
<1>2. Kept(c, d) /\ d.phase = p /\ d.settling = c.settling /\ d.edit = c.edit
  BY <1>1 DEF Copies, Kept
<1>3. d \in Copies(d)
  BY <1>1 DEF Copies
<1> QED
  BY <1>1, <1>2, <1>3 DEF IsCopy

LEMMA TxnIs ==
  ASSUME NEW c, IsCopy(c), NEW t
  PROVE  LET d == [c EXCEPT !.txn = t]
         IN  IsCopy(d) /\ Kept(c, d) /\ d.phase = c.phase /\ d.settling = c.settling /\ d.edit = c.edit
<1> DEFINE d == [c EXCEPT !.txn = t]
<1>1. c \in Copies(c) /\ IsSeq(c.edit.staged)
  BY DEF IsCopy
<1>2. Kept(c, d) /\ d.phase = c.phase /\ d.settling = c.settling /\ d.edit = c.edit
  BY <1>1 DEF Copies, Kept
<1>3. d \in Copies(d)
  BY <1>1 DEF Copies
<1> QED
  BY <1>1, <1>2, <1>3 DEF IsCopy

(* BEGIN: an idle copy of that very name starts an edit; else nothing.       *)
BeganAs(c, session, rev, whole, total, d) ==
    /\ Idle(c) /\ session = c.session /\ rev = c.rev
    /\ Kept(c, d) /\ d.phase = "receiving" /\ d.settling = c.settling
    /\ d.edit.target = c.rev + 1 /\ d.edit.total = total /\ d.edit.splice = "none"
    /\ d.edit.staged = <<>> /\ d.edit.whole = whole

LEMMA BeginIs ==
  ASSUME NEW c, IsCopy(c), NEW txn, NEW session, NEW rev, NEW whole \in {TRUE, FALSE}, NEW total
  PROVE  LET d == Begin(c, txn, session, rev, whole, total).copy
         IN  IsCopy(d) /\ (d = c \/ BeganAs(c, session, rev, whole, total, d))
<1> DEFINE d == Begin(c, txn, session, rev, whole, total).copy
           b == ClearEdit(c)
           e == [NoEdit EXCEPT !.whole = whole, !.total = total, !.target = rev + 1]
           f == [b EXCEPT !.txn = txn, !.phase = "receiving", !.edit = e]
<1>1. \/ d = c
      \/ Idle(c) /\ session = c.session /\ rev = c.rev /\ d = f
  BY DEF Begin, Answer
<1>2. CASE d = c
  BY <1>2
<1>3. CASE Idle(c) /\ session = c.session /\ rev = c.rev /\ d = f
  <2>1. IsCopy(b) /\ Kept(c, b) /\ b.settling = c.settling
    BY ClearIs
  <2>2. /\ e.target = rev + 1 /\ e.total = total /\ e.splice = "none" /\ e.staged = <<>> /\ e.whole = whole
        /\ rev + 1 \in Nat
    BY <1>3, CopyTypes DEF NoEdit
  <2>3. e \in Edits(e)
    BY <2>2 DEF Edits, NoEdit
  <2> HIDE DEF b, e
  <2>4. b \in Copies(b)
    BY <2>1 DEF IsCopy
  <2>5. Kept(b, f) /\ f.phase = "receiving" /\ f.settling = b.settling /\ f.edit = e
    BY <2>4 DEF Copies, Kept
  <2>6. f \in Copies(f)
    BY <2>3, <2>4, <2>5 DEF Copies, Phases
  <2>7. IsSeq(f.edit.staged)
    BY <2>2, <2>5, NothingStaged
  <2> QED
    BY <1>3, <2>1, <2>2, <2>5, <2>6, <2>7 DEF IsCopy, Kept, BeganAs
<1> QED
  BY <1>1, <1>2, <1>3

(* A change of one field of the edit on its way.                             *)
LEMMA EditIs ==
  ASSUME NEW c, IsCopy(c), NEW e, e \in Edits(e), IsSeq(e.staged)
  PROVE  LET d == [c EXCEPT !.edit = e]
         IN  IsCopy(d) /\ Kept(c, d) /\ d.phase = c.phase /\ d.settling = c.settling /\ d.edit = e
<1> DEFINE d == [c EXCEPT !.edit = e]
<1>1. c \in Copies(c)
  BY DEF IsCopy
<1>2. Kept(c, d) /\ d.phase = c.phase /\ d.settling = c.settling /\ d.edit = e
  BY <1>1 DEF Copies, Kept
<1>3. d \in Copies(d)
  BY <1>1, <1>2 DEF Copies
<1>4. IsSeq(d.edit.staged)
  BY <1>2
<1> QED
  BY <1>2, <1>3, <1>4 DEF IsCopy

LEMMA EditTypes ==
  ASSUME NEW c, IsCopy(c)
  PROVE  c.edit \in Edits(c.edit) /\ IsSeq(c.edit.staged)
<1>1. c \in Copies(c) /\ IsSeq(c.edit.staged)
  BY DEF IsCopy
<1> QED
  BY <1>1 DEF Copies

(* SPLICE: an edit that has none takes it; else nothing.                     *)
LEMMA SpliceIs ==
  ASSUME NEW c, IsCopy(c), NEW txn, NEW splice
  PROVE  LET d == Splice(c, txn, splice).copy
         IN  /\ IsCopy(d)
             /\ \/ d = c
                \/ /\ c.phase = "receiving" /\ ~c.edit.whole
                   /\ Kept(c, d) /\ d.phase = c.phase /\ d.settling = c.settling
                   /\ d.edit.splice = splice /\ d.edit.whole = c.edit.whole
                   /\ d.edit.total = c.edit.total /\ d.edit.staged = c.edit.staged
                   /\ d.edit.target = c.edit.target
<1> DEFINE d == Splice(c, txn, splice).copy
           e == [c.edit EXCEPT !.splice = splice]
<1>1. d = c \/ (c.phase = "receiving" /\ ~c.edit.whole /\ d = [c EXCEPT !.edit.splice = splice])
  BY DEF Splice, Answer, Receiving, Idle
<1>2. CASE d = c
  BY <1>2
<1>3. CASE c.phase = "receiving" /\ ~c.edit.whole /\ d = [c EXCEPT !.edit.splice = splice]
  <2>1. d = [c EXCEPT !.edit = e]
    BY <1>3
  <2>2. c.edit \in Edits(c.edit) /\ IsSeq(c.edit.staged)
    BY EditTypes
  <2>3. /\ e.splice = splice /\ e.whole = c.edit.whole /\ e.total = c.edit.total
        /\ e.staged = c.edit.staged /\ e.target = c.edit.target /\ e \in Edits(e)
    BY <2>2 DEF Edits
  <2> HIDE DEF d, e
  <2>4. IsCopy(d) /\ Kept(c, d) /\ d.phase = c.phase /\ d.settling = c.settling /\ d.edit = e
    BY <2>1, <2>2, <2>3, EditIs
  <2> QED
    BY <1>3, <2>3, <2>4 DEF d
<1> QED
  BY <1>1, <1>2, <1>3

(* DATA: the next piece is staged; else nothing.                             *)
LEMMA DataIs ==
  ASSUME NEW c, IsCopy(c), NEW txn, NEW offset, NEW piece
  PROVE  LET d == Data(c, txn, offset, piece).copy
         IN  /\ IsCopy(d)
             /\ \/ d = c
                \/ /\ c.phase = "receiving"
                   /\ Kept(c, d) /\ d.phase = c.phase /\ d.settling = c.settling
                   /\ d.edit.staged = Append(c.edit.staged, piece) /\ d.edit.whole = c.edit.whole
                   /\ d.edit.total = c.edit.total /\ d.edit.splice = c.edit.splice
                   /\ d.edit.target = c.edit.target
<1> DEFINE d == Data(c, txn, offset, piece).copy
           e == [c.edit EXCEPT !.staged = Append(c.edit.staged, piece)]
<1>1. \/ d = c
      \/ c.phase = "receiving" /\ d = [c EXCEPT !.edit.staged = Append(c.edit.staged, piece)]
  BY DEF Data, Answer, Receiving, Idle
<1>2. CASE d = c
  BY <1>2
<1>3. CASE c.phase = "receiving" /\ d = [c EXCEPT !.edit.staged = Append(c.edit.staged, piece)]
  <2>1. d = [c EXCEPT !.edit = e]
    BY <1>3
  <2>2. c.edit \in Edits(c.edit) /\ IsSeq(c.edit.staged)
    BY EditTypes
  <2>3. /\ e.splice = c.edit.splice /\ e.whole = c.edit.whole /\ e.total = c.edit.total
        /\ e.staged = Append(c.edit.staged, piece) /\ e.target = c.edit.target /\ e \in Edits(e)
    BY <2>2 DEF Edits
  <2>4. IsSeq(e.staged)
    BY <2>2, <2>3, SeqAppend
  <2> HIDE DEF d, e
  <2>5. IsCopy(d) /\ Kept(c, d) /\ d.phase = c.phase /\ d.settling = c.settling /\ d.edit = e
    BY <2>1, <2>3, <2>4, EditIs
  <2> QED
    BY <1>3, <2>3, <2>5 DEF d
<1> QED
  BY <1>1, <1>2, <1>3

(* COMMIT: a complete edit goes to be applied, or is refused; else nothing.  *)
LEMMA CommitIs ==
  ASSUME NEW c, IsCopy(c), NEW txn, NEW crc
  PROVE  LET d == Commit(c, txn, crc).copy
         IN  /\ IsCopy(d)
             /\ \/ d = c
                \/ c.phase = "receiving" /\ Kept(c, d) /\ d.phase = "idle" /\ ~d.settling
                \/ /\ c.phase = "receiving"
                   /\ Len(c.edit.staged) = c.edit.total /\ (c.edit.whole \/ c.edit.splice # "none")
                   /\ Kept(c, d) /\ d.phase = "applying" /\ d.settling = c.settling
                   /\ d.edit = c.edit
<1> DEFINE d == Commit(c, txn, crc).copy
<1>1. \/ d = c
      \/ c.phase = "receiving" /\ d = Finish(c, "REFUSED")
      \/ /\ c.phase = "receiving"
         /\ Len(c.edit.staged) = c.edit.total /\ (c.edit.whole \/ c.edit.splice # "none")
         /\ d = [c EXCEPT !.phase = "applying"]
  BY DEF Commit, Answer, Receiving, Idle
<1>2. CASE d = c
  BY <1>2
<1>3. CASE c.phase = "receiving" /\ d = Finish(c, "REFUSED")
  BY <1>3, FinishIs
<1>4. CASE /\ c.phase = "receiving"
           /\ Len(c.edit.staged) = c.edit.total /\ (c.edit.whole \/ c.edit.splice # "none")
           /\ d = [c EXCEPT !.phase = "applying"]
  <2>1. "applying" \in Phases
    BY DEF Phases
  <2>2. /\ IsCopy(d) /\ Kept(c, d) /\ d.phase = "applying" /\ d.settling = c.settling
        /\ d.edit = c.edit
    BY <1>4, <2>1, PhaseIs
  <2> QED
    BY <1>4, <2>2
<1> QED
  BY <1>1, <1>2, <1>3, <1>4

(* ABORT: an edit that does not go back is given up; else nothing.           *)
LEMMA AbortIs ==
  ASSUME NEW c, IsCopy(c), NEW txn
  PROVE  LET d == Abort(c, txn).copy
         IN  /\ IsCopy(d)
             /\ \/ d = c
                \/ c.phase # "reverting" /\ Kept(c, d) /\ d.phase = "idle" /\ ~d.settling
<1> DEFINE d == Abort(c, txn).copy
<1>1. d = c \/ (c.phase # "reverting" /\ d = Finish(c, "REFUSED"))
  BY DEF Abort, Answer, Idle
<1>2. CASE d = c
  BY <1>2
<1>3. CASE c.phase # "reverting" /\ d = Finish(c, "REFUSED")
  BY <1>3, FinishIs
<1> QED
  BY <1>1, <1>2, <1>3

(* REVERT: an idle copy starts back to the saved profile; else nothing.      *)
LEMMA RevertIs ==
  ASSUME NEW c, IsCopy(c), NEW txn, NEW session, NEW rev
  PROVE  LET d == Revert(c, txn, session, rev).copy
         IN  /\ IsCopy(d)
             /\ \/ d = c
                \/ Idle(c) /\ Kept(c, d) /\ d.phase = "idle" /\ ~d.settling
                \/ /\ Idle(c) /\ c.active
                   /\ Kept(c, d) /\ d.phase = "reverting" /\ d.settling = c.settling
<1> DEFINE d == Revert(c, txn, session, rev).copy
           b == [c EXCEPT !.txn = txn]
<1>1. \/ d = c
      \/ Idle(c) /\ d = Finish(b, "OK")
      \/ Idle(c) /\ c.active /\ d = [c EXCEPT !.txn = txn, !.phase = "reverting"]
  BY DEF Revert, Answer
<1>2. IsCopy(b) /\ Kept(c, b) /\ b.phase = c.phase /\ b.settling = c.settling
  BY TxnIs
<1>3. CASE d = c
  BY <1>3
<1>4. CASE Idle(c) /\ d = Finish(b, "OK")
  <2> HIDE DEF b
  <2>1. IsCopy(d) /\ Kept(b, d) /\ d.phase = "idle" /\ ~d.settling
    BY <1>2, <1>4, FinishIs
  <2> QED
    BY <1>2, <1>4, <2>1 DEF Kept
<1>5. CASE Idle(c) /\ c.active /\ d = [c EXCEPT !.txn = txn, !.phase = "reverting"]
  <2>1. d = [b EXCEPT !.phase = "reverting"] /\ "reverting" \in Phases
    BY <1>5 DEF Phases
  <2> HIDE DEF b, d
  <2>2. IsCopy(d) /\ Kept(b, d) /\ d.phase = "reverting" /\ d.settling = b.settling
    BY <1>2, <2>1, PhaseIs
  <2> QED
    BY <1>2, <1>5, <2>2 DEF Kept, d
<1> QED
  BY <1>1, <1>3, <1>4, <1>5

(* ADOPT: an idle copy without edits takes another name; else nothing.       *)
LEMMA AdoptIs ==
  ASSUME NEW c, IsCopy(c), NEW session \in Nat, NEW rev \in Nat
  PROVE  LET d == Adopt(c, session, rev).copy
         IN  /\ IsCopy(d)
             /\ \/ d = c
                \/ /\ Idle(c) /\ ~c.active
                   /\ d.session = session /\ d.rev = rev /\ ~d.active /\ d.saved = c.saved
                   /\ d.bytes = c.bytes /\ d.phase = "idle" /\ d.settling = c.settling
<1> DEFINE d == Adopt(c, session, rev).copy
<1>1. d = c \/ (Idle(c) /\ ~c.active /\ d = [c EXCEPT !.session = session, !.rev = rev])
  BY DEF Adopt, Answer
<1>2. CASE d = c
  BY <1>2
<1>3. CASE Idle(c) /\ ~c.active /\ d = [c EXCEPT !.session = session, !.rev = rev]
  <2>1. c \in Copies(c) /\ IsSeq(c.edit.staged)
    BY DEF IsCopy
  <2> HIDE DEF d
  <2>2. /\ d.session = session /\ d.rev = rev /\ d.active = c.active /\ d.saved = c.saved
        /\ d.bytes = c.bytes /\ d.phase = c.phase /\ d.settling = c.settling /\ d.edit = c.edit
    BY <1>3, <2>1 DEF Copies
  <2>3. d \in Copies(d)
    BY <1>3, <2>1 DEF Copies
  <2> QED
    BY <1>3, <2>1, <2>2, <2>3 DEF IsCopy, Idle, d
<1> QED
  BY <1>1, <1>2, <1>3

(* The edit is live.                                                         *)
LEMMA PublishedIs ==
  ASSUME NEW c, IsCopy(c)
  PROVE  LET d == Published(c)
         IN  /\ IsCopy(d)
             /\ d.session = c.session /\ d.rev = c.edit.target /\ d.active /\ d.saved = c.saved
             /\ d.bytes = Result(c) /\ d.phase = "idle" /\ ~d.settling
             /\ d.published.valid /\ d.published.rev = c.edit.target
             /\ d.published.whole = c.edit.whole
             /\ d.published.splice = c.edit.splice /\ d.published.crc = c.edit.staged
<1> DEFINE a == [c EXCEPT !.active = TRUE, !.bytes = Result(c), !.rev = c.edit.target]
           b == Finish(a, "OK")
           p == [valid |-> TRUE, rev |-> c.edit.target, whole |-> c.edit.whole,
                 splice |-> c.edit.splice, crc |-> c.edit.staged]
           d == Published(c)
<1>1. c \in Copies(c) /\ IsSeq(c.edit.staged) /\ c.edit.target \in Nat /\ c.edit.whole \in BOOLEAN
  BY CopyTypes DEF IsCopy
<1>2. d = [b EXCEPT !.published = p]
  BY DEF Published
<1>3. /\ a.session = c.session /\ a.rev = c.edit.target /\ a.active = TRUE /\ a.saved = c.saved
      /\ a.bytes = Result(c) /\ a.edit = c.edit
  BY <1>1 DEF Copies
<1>4. a \in Copies(a)
  BY <1>1 DEF Copies
<1>5. IsCopy(a)
  BY <1>1, <1>3, <1>4 DEF IsCopy
<1>6. p \in Prints(p)
  BY <1>1 DEF Prints
<1>7. /\ p.valid /\ p.rev = c.edit.target /\ p.whole = c.edit.whole
      /\ p.splice = c.edit.splice /\ p.crc = c.edit.staged
  OBVIOUS
<1> HIDE DEF a, p
<1>8. IsCopy(b) /\ Kept(a, b) /\ b.phase = "idle" /\ ~b.settling
  BY <1>5, FinishIs
<1> HIDE DEF b, d
<1>9. b \in Copies(b) /\ IsSeq(b.edit.staged)
  BY <1>8 DEF IsCopy
<1>10. /\ d.session = b.session /\ d.rev = b.rev /\ d.active = b.active /\ d.saved = b.saved
       /\ d.bytes = b.bytes /\ d.phase = b.phase /\ d.settling = b.settling /\ d.edit = b.edit
       /\ d.published = p
  BY <1>2, <1>9 DEF Copies
<1>11. d \in Copies(d)
  BY <1>2, <1>6, <1>9, <1>10 DEF Copies
<1>12. IsCopy(d)
  BY <1>9, <1>10, <1>11 DEF IsCopy
<1> QED
  BY <1>3, <1>7, <1>8, <1>10, <1>12 DEF Kept, d

(* Back to the saved profile: under the next revision, or, for a Save that   *)
(* found nothing to write, under the same one.                               *)
LEMMA RevertedIs ==
  ASSUME NEW c, IsCopy(c), NEW savedBytes
  PROVE  LET d == Reverted(c, savedBytes)
         IN  /\ IsCopy(d)
             /\ d.session = c.session /\ d.rev = (IF c.settling THEN c.rev ELSE c.rev + 1)
             /\ ~d.active /\ d.saved = c.saved
             /\ d.bytes = savedBytes /\ d.phase = "idle" /\ ~d.settling
<1> DEFINE a == [c EXCEPT !.active = FALSE, !.bytes = savedBytes, !.published.valid = FALSE]
           b == [a EXCEPT !.rev = @ + 1]
           d == Reverted(c, savedBytes)
           p == [c.published EXCEPT !.valid = FALSE]
<1>1. c \in Copies(c) /\ IsSeq(c.edit.staged) /\ c.settling \in BOOLEAN /\ c.published \in Prints(c.published)
  BY CopyTypes DEF IsCopy, Copies
<1>2. p \in Prints(p)
  BY <1>1 DEF Prints
<1>3. a = [c EXCEPT !.active = FALSE, !.bytes = savedBytes, !.published = p]
  BY <1>1
<1> HIDE DEF p
<1>4. d = IF c.settling THEN [a EXCEPT !.settling = FALSE, !.phase = "idle"] ELSE Finish(b, "OK")
  BY DEF Reverted
<1> HIDE DEF a, d
<1>5. /\ a.session = c.session /\ a.rev = c.rev /\ ~a.active /\ a.saved = c.saved
      /\ a.bytes = savedBytes /\ a.edit = c.edit /\ a.published = p
  BY <1>1, <1>3 DEF Copies
<1>6. a \in Copies(a)
  BY <1>1, <1>2, <1>3, <1>5 DEF Copies
<1>7. CASE c.settling
  <2>1. d = [a EXCEPT !.settling = FALSE, !.phase = "idle"]
    BY <1>4, <1>7
  <2>2. /\ d.session = a.session /\ d.rev = a.rev /\ d.active = a.active /\ d.saved = a.saved
        /\ d.bytes = a.bytes /\ d.phase = "idle" /\ ~d.settling /\ d.edit = a.edit
    BY <1>6, <2>1 DEF Copies
  <2>3. d \in Copies(d)
    BY <1>6, <2>1 DEF Copies, Phases
  <2> QED
    BY <1>1, <1>5, <1>7, <2>2, <2>3 DEF IsCopy, d
<1>8. CASE ~c.settling
  <2>1. d = Finish(b, "OK")
    BY <1>4, <1>8
  <2>2. /\ b.session = a.session /\ b.rev = a.rev + 1 /\ b.active = a.active /\ b.saved = a.saved
        /\ b.bytes = a.bytes /\ b.edit = a.edit
    BY <1>6 DEF Copies
  <2>3. b \in Copies(b)
    BY <1>6 DEF Copies
  <2>4. IsCopy(b)
    BY <1>1, <1>5, <2>2, <2>3 DEF IsCopy
  <2> HIDE DEF b
  <2>5. IsCopy(d) /\ Kept(b, d) /\ d.phase = "idle" /\ ~d.settling
    BY <2>1, <2>4, FinishIs
  <2> QED
    BY <1>5, <1>8, <2>2, <2>5 DEF Kept, d
<1> QED
  BY <1>7, <1>8

LEMMA RevertRefusedIs ==
  ASSUME NEW c, IsCopy(c)
  PROVE  LET d == RevertRefused(c)
         IN  IsCopy(d) /\ Kept(c, d) /\ d.phase = "idle" /\ ~d.settling
<1> DEFINE d == RevertRefused(c)
<1>1. \/ d = [c EXCEPT !.settling = FALSE, !.phase = "idle"]
      \/ d = Finish(c, "REFUSED")
  BY DEF RevertRefused
<1>2. CASE d = [c EXCEPT !.settling = FALSE, !.phase = "idle"]
  <2>1. c \in Copies(c) /\ IsSeq(c.edit.staged)
    BY DEF IsCopy
  <2> HIDE DEF d
  <2>2. Kept(c, d) /\ d.phase = "idle" /\ ~d.settling /\ d.edit = c.edit
    BY <1>2, <2>1 DEF Copies, Kept
  <2>3. d \in Copies(d)
    BY <1>2, <2>1 DEF Copies, Phases
  <2> QED
    BY <2>1, <2>2, <2>3 DEF IsCopy, d
<1>3. CASE d = Finish(c, "REFUSED")
  BY <1>3, FinishIs
<1> QED
  BY <1>1, <1>2, <1>3

(* A save that finds the working copy equal to the saved profile.            *)
LEMMA SettleIs ==
  ASSUME NEW c, IsCopy(c)
  PROVE  LET d == SettleSaved(c)
         IN  IsCopy(d) /\ Kept(c, d) /\ d.phase = "reverting" /\ d.settling
<1> DEFINE d == SettleSaved(c)
<1>1. d = [c EXCEPT !.settling = TRUE, !.phase = "reverting"]
  BY DEF SettleSaved
<1>2. c \in Copies(c) /\ IsSeq(c.edit.staged)
  BY DEF IsCopy
<1> HIDE DEF d
<1>3. Kept(c, d) /\ d.phase = "reverting" /\ d.settling /\ d.edit = c.edit
  BY <1>1, <1>2 DEF Copies, Kept
<1>4. d \in Copies(d)
  BY <1>1, <1>2 DEF Copies, Phases
<1> QED
  BY <1>2, <1>3, <1>4 DEF IsCopy, d

(* The half runs another saved profile.                                      *)
LEMMA ReplacedIs ==
  ASSUME NEW c, IsCopy(c), NEW saved \in Nat, NEW bytes, NEW changed
  PROVE  LET d == Replaced(c, saved, bytes, changed)
         IN  /\ IsCopy(d)
             /\ d.session = c.session /\ d.rev = (IF changed THEN c.rev + 1 ELSE c.rev)
             /\ ~d.active /\ d.saved = saved
             /\ d.bytes = bytes /\ d.phase = "idle" /\ (Idle(c) => d.settling = c.settling)
             /\ (~Idle(c) => ~d.settling)
<1> DEFINE a == IF Idle(c) THEN c ELSE Finish(c, "REFUSED")
           d == Replaced(c, saved, bytes, changed)
<1>1. IsCopy(a) /\ Kept(c, a) /\ a.phase = "idle" /\ (Idle(c) => a.settling = c.settling) /\ (~Idle(c) => ~a.settling)
  <2>1. CASE Idle(c)
    BY <2>1 DEF Kept, Idle
  <2>2. CASE ~Idle(c)
    BY <2>2, FinishIs
  <2> QED
    BY <2>1, <2>2
<1>2. d = [a EXCEPT !.active = FALSE, !.saved = saved, !.bytes = bytes,
                    !.published.valid = FALSE, !.rev = IF changed THEN @ + 1 ELSE @]
  BY DEF Replaced
<1> HIDE DEF a, d
<1>3. a \in Copies(a) /\ IsSeq(a.edit.staged) /\ a.published \in Prints(a.published) /\ a.rev \in Nat
  BY <1>1, CopyTypes DEF IsCopy, Copies
<1>4. PICK p : p = [a.published EXCEPT !.valid = FALSE]
  OBVIOUS
<1>5. PICK v : v = IF changed THEN a.rev + 1 ELSE a.rev
  OBVIOUS
<1>6. p \in Prints(p) /\ v \in Nat
  <2>1. p \in Prints(p)
    BY <1>3, <1>4 DEF Prints
  <2>2. v \in Nat
    BY <1>3, <1>5
  <2> QED
    BY <2>1, <2>2
<1>7. d = [a EXCEPT !.active = FALSE, !.saved = saved, !.bytes = bytes, !.published = p, !.rev = v]
  BY <1>2, <1>3, <1>4, <1>5
<1>8. /\ d.session = a.session /\ d.rev = v /\ ~d.active /\ d.saved = saved /\ d.bytes = bytes
      /\ d.phase = a.phase /\ d.settling = a.settling /\ d.edit = a.edit /\ d.published = p
  BY <1>3, <1>7 DEF Copies
<1>9. d \in Copies(d)
  BY <1>3, <1>6, <1>7, <1>8 DEF Copies
<1> QED
  BY <1>1, <1>3, <1>5, <1>8, <1>9 DEF IsCopy, Kept, d

-----------------------------------------------------------------------------
(* Requests.                                                                 *)

Kinds == {"STATUS", "BEGIN", "SPLICE", "DATA", "COMMIT", "ABORT", "REVERT", "ADOPT"}
IsRequest(r) ==
    \/ r = NoRequest
    \/ /\ r.kind \in Kinds
       /\ r.kind = "BEGIN" => r.body.rev \in Nat /\ r.body.whole \in {TRUE, FALSE}
       /\ r.kind = "ADOPT" => r.body.session \in Nat /\ r.body.rev \in Nat /\ r.body.saved \in Nat

(* What working off a request makes of a copy.                               *)
Ended(c, d) == Kept(c, d) /\ d.phase = "idle"
TurnedBack(c, r, d) == r.kind = "REVERT" /\ Kept(c, d) /\ d.phase = "reverting"
Began(c, r, d) ==
    /\ r.kind = "BEGIN" /\ Idle(c) /\ r.body.session = c.session /\ r.body.rev = c.rev
    /\ Kept(c, d) /\ d.phase = "receiving"
    /\ d.edit.target = c.rev + 1 /\ d.edit.total = r.body.total /\ d.edit.splice = "none"
    /\ d.edit.staged = <<>> /\ d.edit.whole = r.body.whole
Spliced(c, r, d) ==
    /\ r.kind = "SPLICE" /\ c.phase = "receiving" /\ ~c.edit.whole
    /\ Kept(c, d) /\ d.phase = "receiving"
    /\ d.edit.splice = r.body.splice /\ d.edit.whole = c.edit.whole
    /\ d.edit.total = c.edit.total /\ d.edit.staged = c.edit.staged
    /\ d.edit.target = c.edit.target
Staged(c, r, d) ==
    /\ r.kind = "DATA" /\ c.phase = "receiving"
    /\ Kept(c, d) /\ d.phase = "receiving"
    /\ d.edit.staged = Append(c.edit.staged, r.body.piece) /\ d.edit.whole = c.edit.whole
    /\ d.edit.total = c.edit.total /\ d.edit.splice = c.edit.splice
    /\ d.edit.target = c.edit.target
Committed(c, r, d) ==
    /\ r.kind = "COMMIT" /\ c.phase = "receiving"
    /\ Len(c.edit.staged) = c.edit.total /\ (c.edit.whole \/ c.edit.splice # "none")
    /\ Kept(c, d) /\ d.phase = "applying" /\ d.edit = c.edit
Adopted(c, r, d) ==
    /\ r.kind = "ADOPT" /\ Idle(c) /\ ~c.active /\ c.saved = r.body.saved
    /\ d.session = r.body.session /\ d.rev = r.body.rev /\ ~d.active /\ d.saved = c.saved
    /\ d.bytes = c.bytes /\ d.phase = "idle"
Worked(c, r, d) ==
    \/ d = c \/ Ended(c, d) \/ TurnedBack(c, r, d) \/ Began(c, r, d) \/ Spliced(c, r, d)
    \/ Staged(c, r, d) \/ Committed(c, r, d) \/ Adopted(c, r, d)

LEMMA ProcessIs ==
  ASSUME NEW c, IsCopy(c), ~c.settling, NEW r, IsRequest(r), r # NoRequest
  PROVE  LET d == Process(c, r).copy IN IsCopy(d) /\ ~d.settling /\ Worked(c, r, d)
<1> DEFINE d == Process(c, r).copy
<1>1. r.kind \in Kinds
  BY DEF IsRequest
<1>2. CASE r.kind = "STATUS"
  <2>1. d = c
    BY <1>2 DEF Process, Answer
  <2> QED
    BY <2>1 DEF Worked
<1>3. CASE r.kind = "BEGIN"
  <2>1. d = Begin(c, r.txn, r.body.session, r.body.rev, r.body.whole, r.body.total).copy
    BY <1>3 DEF Process
  <2>2. r.body.whole \in {TRUE, FALSE}
    BY <1>3 DEF IsRequest, NoRequest
  <2>5. PICK txn, session, rev, total :
           /\ txn = r.txn /\ session = r.body.session /\ rev = r.body.rev
           /\ total = r.body.total
    OBVIOUS
  <2>6. PICK whole \in {TRUE, FALSE} : whole = r.body.whole
    BY <2>2
  <2> HIDE DEF d
  <2>4. IsCopy(d) /\ (d = c \/ BeganAs(c, session, rev, whole, total, d))
    <3>1. d = Begin(c, txn, session, rev, whole, total).copy
      BY <2>1, <2>5, <2>6, Zenon
    <3> QED
      BY <2>6, <3>1, BeginIs
  <2>3. IsCopy(d) /\ ~d.settling /\ (d = c \/ Began(c, r, d))
    BY <1>3, <2>4, <2>5, <2>6 DEF Began, BeganAs
  <2> QED
    BY <2>3 DEF Worked, d
<1>4. CASE r.kind = "SPLICE"
  <2>1. d = Splice(c, r.txn, r.body.splice).copy
    BY <1>4 DEF Process
  <2>2. IsCopy(d) /\ ~d.settling /\ (d = c \/ Spliced(c, r, d))
    BY <1>4, <2>1, SpliceIs DEF Spliced
  <2> QED
    BY <2>2 DEF Worked
<1>5. CASE r.kind = "DATA"
  <2>1. d = Data(c, r.txn, r.body.offset, r.body.piece).copy
    BY <1>5 DEF Process
  <2>2. IsCopy(d) /\ ~d.settling /\ (d = c \/ Staged(c, r, d))
    BY <1>5, <2>1, DataIs DEF Staged
  <2> QED
    BY <2>2 DEF Worked
<1>6. CASE r.kind = "COMMIT"
  <2>1. d = Commit(c, r.txn, r.body.crc).copy
    BY <1>6 DEF Process
  <2>2. IsCopy(d) /\ ~d.settling /\ (d = c \/ Ended(c, d) \/ Committed(c, r, d))
    BY <1>6, <2>1, CommitIs DEF Committed, Ended
  <2> QED
    BY <2>2 DEF Worked
<1>7. CASE r.kind = "ABORT"
  <2>1. d = Abort(c, r.txn).copy
    BY <1>7 DEF Process
  <2>2. IsCopy(d) /\ ~d.settling /\ (d = c \/ Ended(c, d))
    BY <2>1, AbortIs DEF Ended
  <2> QED
    BY <2>2 DEF Worked
<1>8. CASE r.kind = "REVERT"
  <2> DEFINE free == IF c.phase \in {"idle", "reverting"} THEN c ELSE Abort(c, c.txn).copy
  <2>1. d = Revert(free, r.txn, free.session, free.rev).copy
    BY <1>8 DEF Process
  <2>2. IsCopy(free) /\ Kept(c, free) /\ ~free.settling /\ (free = c \/ free.phase = "idle")
    <3>1. CASE free = c
      BY <3>1 DEF Kept
    <3>2. CASE free = Abort(c, c.txn).copy
      BY <3>2, AbortIs DEF Kept
    <3> QED
      BY <3>1, <3>2
  <2> HIDE DEF free, d
  <2>3. /\ IsCopy(d)
        /\ \/ d = free
           \/ Kept(free, d) /\ d.phase = "idle" /\ ~d.settling
           \/ Kept(free, d) /\ d.phase = "reverting" /\ d.settling = free.settling
    BY <2>1, <2>2, RevertIs
  <2>4. ~d.settling /\ (d = c \/ Ended(c, d) \/ TurnedBack(c, r, d))
    BY <1>8, <2>2, <2>3 DEF Ended, TurnedBack, Kept
  <2> QED
    BY <2>3, <2>4 DEF Worked, d
<1>9. CASE r.kind = "ADOPT"
  <2>1. d = c \/ (c.saved = r.body.saved /\ d = Adopt(c, r.body.session, r.body.rev).copy)
    BY <1>9 DEF Process, Answer
  <2>2. r.body.session \in Nat /\ r.body.rev \in Nat
    BY <1>9 DEF IsRequest, NoRequest
  <2>3. CASE d = c
    BY <2>3 DEF Worked
  <2>4. CASE c.saved = r.body.saved /\ d = Adopt(c, r.body.session, r.body.rev).copy
    <3>3. PICK session \in Nat, rev \in Nat : session = r.body.session /\ rev = r.body.rev
      BY <2>2
    <3> HIDE DEF d
    <3>1. /\ IsCopy(d)
          /\ \/ d = c
             \/ /\ Idle(c) /\ ~c.active
                /\ d.session = session /\ d.rev = rev /\ ~d.active
                /\ d.saved = c.saved /\ d.bytes = c.bytes /\ d.phase = "idle"
                /\ d.settling = c.settling
      <4>1. d = Adopt(c, session, rev).copy
        BY <2>4, <3>3, Zenon
      <4> QED
        BY <4>1, AdoptIs
    <3>2. IsCopy(d) /\ ~d.settling /\ (d = c \/ Adopted(c, r, d))
      BY <1>9, <2>4, <3>1, <3>3 DEF Adopted
    <3> QED
      BY <3>2 DEF Worked, d
  <2> QED
    BY <2>1, <2>3, <2>4
<1> QED
  BY <1>1, <1>2, <1>3, <1>4, <1>5, <1>6, <1>7, <1>8, <1>9 DEF Kinds


-----------------------------------------------------------------------------
(* The inductive invariant.                                                  *)

SendPhases == {"none", "begin", "splices", "data", "commit", "wait"}
Statuses(s) ==
    [session : Nat, rev : Nat, active : BOOLEAN, phase : Phases, lastResult : {s.lastResult},
     txn : {s.txn}, saved : Nat]
Views(v) ==
    [known : BOOLEAN, session : Nat, rev : Nat, active : BOOLEAN, phase : Phases,
     lastResult : {v.lastResult}, txn : {v.txn}, saved : Nat]
Forwarding(f) ==
    [phase : SendPhases, rev : {f.rev}, txn : {f.txn}, replace : BOOLEAN, sent : {f.sent},
     failedRev : {f.failedRev}, failedWhole : {f.failedWhole}]

CopyShapes ==
    /\ copy \in [Halves -> {Master, Other}]
    /\ IsCopy(Master) /\ IsCopy(Other)
OwnerShapes ==
    /\ IsSeq(store) /\ behind \subseteq Halves
    /\ save \in {"idle", "writing", "written", "settling"}
LinkShapes ==
    /\ view \in Views(view) /\ fwd \in Forwarding(fwd)
    /\ agreed \in [on : BOOLEAN, session : Nat, rev : Nat]
MailShapes ==
    /\ IsRequest(req) /\ IsRequest(mailbox) /\ scanning \in BOOLEAN
    /\ reply = NoReply \/ (reply.kind \in Kinds /\ reply.status \in Statuses(reply.status))
Shapes == CopyShapes /\ OwnerShapes /\ LinkShapes /\ MailShapes /\ sessions \in Nat

SameSession == Other.session = Master.session
Pending == req # NoRequest /\ ~Answered
Editing(c) == c.phase \in {"receiving", "applying"}

(* What an edit sent as splices makes of the bytes it was made on.           *)
Applied(p, bytes) == IF p.splice = "drop" THEN Front(bytes) ELSE bytes \o p.crc[1]
MadeOn(bytes) == Master.bytes = Applied(Master.published, bytes)
SentAsSplice == Master.published.valid /\ Master.published.rev = Master.rev /\ ~Master.published.whole
SpliceTotal == IF Master.published.splice = "drop" THEN 0 ELSE 1

(* A half without unsaved edits runs the saved profile it knows; a half that *)
(* is behind does not know the last one.                                     *)
HalfOK(h, c) ==
    /\ c.saved \in 1 .. Len(store)
    /\ h \in behind => c.saved < Len(store)
    /\ ~c.active => c.bytes = store[c.saved]
    /\ c.session <= sessions
    /\ Editing(c) => c.edit.target = c.rev + 1
HalvesOK ==
    /\ HalfOK("master", Master) /\ HalfOK("other", Other) /\ ~Other.settling
    /\ Master.phase = "receiving" => Master.edit.total \in Nat

(* The master half's copy does not move while its Save is under way.         *)
SaveOK ==
    /\ save = "writing" => Idle(Master) /\ Master.active /\ "master" \notin behind
    /\ save = "written" => /\ Idle(Master) /\ Master.active /\ "master" \in behind
                           /\ store[Len(store)] = Master.bytes
    /\ save = "settling" => /\ Master.phase = "reverting" /\ "master" \notin behind
                            /\ Master.bytes = store[Master.saved]
    /\ Master.settling <=> save = "settling"

(* A request in the mailbox that is not the one being repeated is from       *)
(* before a restart, and the halves' sessions are apart.                     *)
MailOK ==
    /\ mailbox.kind = "ADOPT" => mailbox.body.session <= sessions
    /\ mailbox # NoRequest /\ ~scanning =>
           /\ reply.kind # mailbox.kind \/ reply.seq # mailbox.seq
           /\ mailbox # req => /\ ~SameSession
                               /\ mailbox.kind = "ADOPT" => mailbox.body.session # Master.session

(* What the last reply says of the other half has only been passed since.    *)
ReplyOK ==
    reply # NoReply =>
        /\ Other.session = reply.status.session
        /\ Other.rev >= reply.status.rev
        /\ Other.rev = reply.status.rev => Other.active = reply.status.active
        /\ reply.status.phase = "idle" => Idle(Other)

(* So has what the master half last heard of it.                             *)
ViewOK ==
    view.known /\ view.session = Master.session /\ SameSession =>
        /\ req.kind # "ADOPT" => Other.rev >= view.rev
        /\ view.phase = "idle" /\ fwd.phase = "none" => Other.phase \in {"idle", "reverting"}
        /\ view.phase = "idle" /\ req = NoRequest => Idle(Other)

(* A BEGIN for the copy as it is now says what that edit is, and one sent as *)
(* splices meets the bytes the edit was made on.                             *)
BeginNow ==
    /\ req.body.whole => req.body.total = Chunks
    /\ ~req.body.whole => SentAsSplice /\ req.body.total = SpliceTotal
    /\ fwd.phase = "begin" => req.body.whole = Whole(fwd)
    /\ ~req.body.whole /\ SameSession /\ Other.rev = req.body.rev /\ Other.saved = Master.saved
           => MadeOn(Other.bytes)
BeginOK ==
    /\ fwd.phase = "begin" => req.kind = "BEGIN"
    /\ req.kind = "BEGIN" =>
           /\ req.body.session = Master.session /\ req.body.rev + 1 <= Master.rev
           /\ fwd.phase \in {"none", "begin"}
           /\ fwd.phase = "none" => ~view.known
           /\ fwd.phase = "begin" => req.body.rev + 1 = fwd.rev
           /\ SameSession => Other.rev >= req.body.rev
           /\ Pending /\ SameSession => Idle(Other)
           /\ Master.active /\ req.body.rev + 1 = Master.rev => BeginNow

(* While the other half is asked to take a name, nothing is agreed.          *)
AdoptOK ==
    req.kind = "ADOPT" =>
        /\ req.body.session = Master.session /\ req.body.saved <= Len(store)
        /\ ~agreed.on /\ ~view.active

(* An edit on its way into the other half under the master half's name is    *)
(* the master half's edit.                                                   *)
ReceivingNow(e) ==
    /\ fwd.phase \in {"begin", "splices", "data", "commit"} /\ fwd.rev = Master.rev
           => e.whole = Whole(fwd)
    /\ Pending /\ req.kind = "SPLICE" => req.body.splice = Master.published.splice
    /\ Pending /\ req.kind = "DATA" =>
           req.body.piece = (IF e.whole THEN Master.bytes ELSE Master.published.crc[1])
EditNow(c) ==
    LET e == c.edit
    IN  /\ e.whole => e.total = Chunks /\ \A i \in 1 .. Len(e.staged) : e.staged[i] = Master.bytes
        /\ ~e.whole => /\ SentAsSplice /\ e.total = SpliceTotal
                       /\ e.splice \in {"none", Master.published.splice}
                       /\ \A i \in 1 .. Len(e.staged) : e.staged[i] = Master.published.crc[1]
                       /\ c.saved = Master.saved => MadeOn(c.bytes)
        /\ c.phase = "applying" => Len(e.staged) = e.total /\ (e.whole \/ e.splice # "none")
        /\ c.phase = "receiving" => ReceivingNow(e)
EditOK ==
    Editing(Other) /\ SameSession =>
        /\ Other.edit.target <= Master.rev
        /\ Master.active /\ Other.edit.target = Master.rev => EditNow(Other)

(* The other half's edits are never newer than the master half's.            *)
NameOK ==
    SameSession /\ Other.active =>
        /\ Other.rev <= Master.rev
        /\ Other.rev = Master.rev /\ Other.saved = Master.saved /\ Master.active
               => Other.bytes = Master.bytes

(* What both halves were seen to hold is what the other half holds until its *)
(* revision moves on.                                                        *)
AgreedOK ==
    agreed.on =>
        /\ agreed.session = Master.session /\ agreed.rev <= Master.rev
        /\ SameSession =>
               /\ Other.rev >= agreed.rev
               /\ Other.rev = agreed.rev /\ Other.saved = Master.saved =>
                      /\ Master.rev = agreed.rev => Other.bytes = Master.bytes
                      /\ Master.rev = agreed.rev + 1 /\ Master.active /\ SentAsSplice
                             => MadeOn(Other.bytes)
               /\ save = "written" /\ Other.rev = agreed.rev /\ Master.rev = agreed.rev
                      => Other.saved # Len(store)

(* A half that has gone over to what is being saved is past the edit the     *)
(* master half saves.                                                        *)
SaveLinkOK ==
    /\ save \in {"writing", "written"} =>
           /\ SameSession => Other.rev + 1 >= Master.rev
           /\ req.kind = "ADOPT" => req.body.rev + 1 >= Master.rev
    /\ save = "written" =>
           /\ req.kind = "ADOPT" => req.body.saved # Len(store)
           /\ SameSession /\ Other.saved = Len(store) => Other.rev >= Master.rev /\ ~Other.active

LinkInv == ViewOK /\ BeginOK /\ AdoptOK /\ EditOK /\ NameOK /\ AgreedOK
IInv == Shapes /\ HalvesOK /\ SaveOK /\ MailOK /\ ReplyOK /\ LinkInv /\ SaveLinkOK

-----------------------------------------------------------------------------
(* Small facts.                                                              *)

LEMMA SetMaster ==
  ASSUME CopyShapes, NEW c, copy' = [copy EXCEPT !["master"] = c]
  PROVE  Master' = c /\ Other' = Other /\ copy' \in [Halves -> {Master', Other'}]
<1>1. Master' = c /\ Other' = Other
  BY DEF CopyShapes, Halves, Master, Other
<1>2. copy' = [h \in Halves |-> IF h = "master" THEN Master' ELSE Other']
  BY <1>1 DEF CopyShapes, Halves, Master, Other
<1> QED
  BY <1>1, <1>2 DEF Halves

LEMMA SetOther ==
  ASSUME CopyShapes, NEW c, copy' = [copy EXCEPT !["other"] = c]
  PROVE  Other' = c /\ Master' = Master /\ copy' \in [Halves -> {Master', Other'}]
<1>1. Other' = c /\ Master' = Master
  BY DEF CopyShapes, Halves, Master, Other
<1>2. copy' = [h \in Halves |-> IF h = "master" THEN Master' ELSE Other']
  BY <1>1 DEF CopyShapes, Halves, Master, Other
<1> QED
  BY <1>1, <1>2 DEF Halves

LEMMA SameCopies ==
  ASSUME CopyShapes, UNCHANGED copy
  PROVE  Master' = Master /\ Other' = Other /\ copy' \in [Halves -> {Master', Other'}]
BY DEF CopyShapes, Master, Other

LEMMA StatusIs ==
  ASSUME NEW c, IsCopy(c)
  PROVE  /\ Status(c) \in Statuses(Status(c))
         /\ Status(c).session = c.session /\ Status(c).rev = c.rev /\ Status(c).active = c.active
         /\ Status(c).phase = c.phase /\ Status(c).saved = c.saved
BY CopyTypes DEF Status, Statuses

LEMMA ViewIs ==
  ASSUME NEW s, s \in Statuses(s)
  PROVE  /\ Heard(s) \in Views(Heard(s)) /\ Heard(s).known
         /\ Heard(s).session = s.session /\ Heard(s).rev = s.rev /\ Heard(s).active = s.active
         /\ Heard(s).phase = s.phase /\ Heard(s).saved = s.saved
BY DEF Heard, Statuses, Views

LEMMA StoreAppend ==
  ASSUME IsSeq(store), NEW bytes, store' = Append(store, bytes)
  PROVE  /\ IsSeq(store') /\ Len(store) \in Nat /\ Len(store') = Len(store) + 1
         /\ \A i \in 1 .. Len(store) : store'[i] = store[i]
         /\ store'[Len(store')] = bytes
BY SeqAppend


LEMMA Nats ==
  ASSUME Shapes
  PROVE  /\ Master.session \in Nat /\ Master.rev \in Nat /\ Master.saved \in Nat
         /\ Other.session \in Nat /\ Other.rev \in Nat /\ Other.saved \in Nat
         /\ Master.edit.target \in Nat /\ Other.edit.target \in Nat
         /\ Master.active \in BOOLEAN /\ Other.active \in BOOLEAN
         /\ Master.settling \in BOOLEAN /\ Other.settling \in BOOLEAN
         /\ Master.phase \in Phases /\ Other.phase \in Phases
         /\ Len(store) \in Nat /\ sessions \in Nat
         /\ agreed.rev \in Nat /\ agreed.session \in Nat /\ agreed.on \in BOOLEAN
         /\ view.known \in BOOLEAN /\ view.session \in Nat /\ view.rev \in Nat
         /\ view.active \in BOOLEAN
         /\ fwd.phase \in SendPhases /\ fwd.replace \in BOOLEAN
<1>1. IsCopy(Master) /\ IsCopy(Other) /\ IsSeq(store)
  BY DEF Shapes, CopyShapes, OwnerShapes
<1>2. /\ Master.session \in Nat /\ Master.rev \in Nat /\ Master.saved \in Nat
      /\ Master.edit.target \in Nat /\ Master.active \in BOOLEAN /\ Master.settling \in BOOLEAN
      /\ Master.phase \in Phases
  BY <1>1, CopyTypes
<1>3. /\ Other.session \in Nat /\ Other.rev \in Nat /\ Other.saved \in Nat
      /\ Other.edit.target \in Nat /\ Other.active \in BOOLEAN /\ Other.settling \in BOOLEAN
      /\ Other.phase \in Phases
  BY <1>1, CopyTypes
<1>4. Len(store) \in Nat
  BY <1>1, SeqDomain
<1>5. /\ agreed.rev \in Nat /\ agreed.session \in Nat /\ agreed.on \in BOOLEAN
      /\ view.known \in BOOLEAN /\ view.session \in Nat /\ view.rev \in Nat
      /\ view.active \in BOOLEAN
      /\ fwd.phase \in SendPhases /\ fwd.replace \in BOOLEAN
  BY DEF Shapes, LinkShapes, Views, Forwarding
<1> QED
  BY <1>2, <1>3, <1>4, <1>5 DEF Shapes

-----------------------------------------------------------------------------
(* Steps of the master half's link: the copies and the profiles stay.        *)

LEMMA CopiesStay ==
  ASSUME IInv, UNCHANGED <<copy, owner, slave, sessions>>
  PROVE  /\ Master' = Master /\ Other' = Other
         /\ CopyShapes' /\ OwnerShapes' /\ sessions' \in Nat
         /\ HalvesOK' /\ SaveOK' /\ ReplyOK' /\ NameOK'
<1>1. /\ UNCHANGED <<copy, store, behind, save, mailbox, scanning, reply, sessions>>
      /\ CopyShapes /\ OwnerShapes /\ sessions \in Nat
  BY DEF IInv, Shapes, owner, slave
<1>2. Master' = Master /\ Other' = Other /\ CopyShapes'
  BY <1>1, SameCopies DEF CopyShapes
<1>3. OwnerShapes' /\ sessions' \in Nat
  BY <1>1 DEF OwnerShapes
<1>4. HalvesOK'
  BY <1>1, <1>2 DEF IInv, HalvesOK, HalfOK
<1>5. SaveOK'
  BY <1>1, <1>2 DEF IInv, SaveOK
<1>6. ReplyOK'
  BY <1>1, <1>2 DEF IInv, ReplyOK
<1>7. NameOK'
  BY <1>1, <1>2 DEF IInv, LinkInv, NameOK, SameSession
<1> QED
  BY <1>2, <1>3, <1>4, <1>5, <1>6, <1>7

(* The request in the mailbox is none that has been answered.                *)
LEMMA MailStays ==
  ASSUME MailOK, MailShapes, UNCHANGED <<mailbox, scanning, reply, sessions>>,
         Master' = Master, Other' = Other, req = NoRequest \/ Answered
  PROVE  MailOK'
<1>1. CASE mailbox # NoRequest /\ ~scanning
  <2>1. mailbox # req
    BY <1>1 DEF MailOK, Answered
  <2> QED
    BY <1>1, <2>1 DEF MailOK, SameSession
<1>2. CASE ~(mailbox # NoRequest /\ ~scanning)
  BY <1>2 DEF MailOK
<1> QED
  BY <1>1, <1>2

(* A request about nothing but the edit being sent.                          *)
AsksOf(e) ==
    /\ req'.kind = "SPLICE" => req'.body.splice = Master.published.splice
    /\ req'.kind = "DATA" =>
           req'.body.piece = (IF e.whole THEN Master.bytes ELSE Master.published.crc[1])
Asks ==
    /\ req = NoRequest /\ IsRequest(req') /\ req' # NoRequest /\ req'.kind \notin {"BEGIN", "ADOPT"}
    /\ UNCHANGED <<copy, owner, slave, sessions, view, fwd>>
    /\ agreed' \in {agreed, NoAgreement}
    /\ EditOK /\ Other.phase = "receiving" /\ SameSession
           /\ Master.active /\ Other.edit.target = Master.rev
       => AsksOf(Other.edit)

LEMMA AsksInv ==
  ASSUME IInv, Asks
  PROVE  IInv'
<1>1. /\ UNCHANGED <<copy, store, behind, save, mailbox, scanning, reply, sessions, view, fwd>>
      /\ req = NoRequest /\ IsRequest(req') /\ req' # NoRequest
      /\ req'.kind \notin {"BEGIN", "ADOPT"} /\ agreed' \in {agreed, NoAgreement}
  BY DEF Asks, owner, slave
<1>2. /\ Master' = Master /\ Other' = Other
      /\ CopyShapes' /\ OwnerShapes' /\ sessions' \in Nat
      /\ HalvesOK' /\ SaveOK' /\ ReplyOK' /\ NameOK'
  BY CopiesStay DEF Asks
<1>3. Shapes'
  <2>1. MailShapes'
    BY <1>1 DEF IInv, Shapes, MailShapes
  <2>2. LinkShapes'
    <3>1. LinkShapes /\ view' = view /\ fwd' = fwd /\ (agreed' = agreed \/ agreed' = NoAgreement)
      BY <1>1 DEF IInv, Shapes
    <3>2. agreed' \in [on : BOOLEAN, session : Nat, rev : Nat]
      <4>1. CASE agreed' = agreed
        BY <3>1, <4>1 DEF LinkShapes
      <4>2. CASE agreed' = NoAgreement
        BY <4>2 DEF NoAgreement
      <4> QED
        BY <3>1, <4>1, <4>2
    <3>3. view' \in Views(view')
      BY <3>1 DEF LinkShapes
    <3>4. fwd' \in Forwarding(fwd')
      BY <3>1 DEF LinkShapes
    <3> QED
      BY <3>2, <3>3, <3>4 DEF LinkShapes
  <2> QED
    BY <1>2, <2>1, <2>2 DEF Shapes
<1>4. MailOK'
  BY <1>1, <1>2, MailStays DEF IInv, Shapes
<1>5. req.kind = "none"
  BY <1>1 DEF NoRequest
<1>6. ViewOK'
  BY <1>1, <1>2, <1>5 DEF IInv, LinkInv, ViewOK, SameSession
<1>7. BeginOK'
  BY <1>1, <1>5 DEF IInv, LinkInv, BeginOK
<1>8. AdoptOK'
  BY <1>1 DEF AdoptOK
<1>9. EditOK'
  <2>1. Editing(Other)' = Editing(Other) /\ SameSession' = SameSession
    BY <1>2 DEF Editing, SameSession
  <2> SUFFICES ASSUME Editing(Other), SameSession
               PROVE  /\ Other.edit.target <= Master.rev
                      /\ Master.active /\ Other.edit.target = Master.rev => EditNow(Other)'
    BY <1>2, <2>1 DEF EditOK
  <2>2. /\ Other.edit.target <= Master.rev
        /\ Master.active /\ Other.edit.target = Master.rev => EditNow(Other)
    BY DEF IInv, LinkInv, EditOK
  <2>3. ASSUME Master.active, Other.edit.target = Master.rev
        PROVE  EditNow(Other)'
    <3>1. EditNow(Other)
      BY <2>2, <2>3
    <3>2. Other.phase = "receiving" => AsksOf(Other.edit)
      BY <2>3 DEF Asks, IInv, LinkInv
    <3>3. Other.phase = "receiving" => ReceivingNow(Other.edit)'
      BY <1>1, <1>2, <3>1, <3>2 DEF EditNow, ReceivingNow, AsksOf, Whole
    <3> QED
      BY <1>2, <3>1, <3>3 DEF EditNow, SentAsSplice, SpliceTotal, MadeOn
  <2> QED
    BY <2>2, <2>3
<1>10. AgreedOK'
  BY <1>1, <1>2 DEF IInv, LinkInv, AgreedOK, NoAgreement, SameSession, SentAsSplice, MadeOn
<1>11. SaveLinkOK'
  BY <1>1, <1>2 DEF IInv, SaveLinkOK, SameSession
<1> QED
  BY <1>2, <1>3, <1>4, <1>6, <1>7, <1>8, <1>9, <1>10, <1>11 DEF IInv, LinkInv


LEMMA SendIs ==
  ASSUME NEW kind \in Kinds, NEW txn, NEW body, Send(kind, txn, body),
         kind \notin {"BEGIN", "ADOPT"}
  PROVE  IsRequest(req') /\ req' # NoRequest /\ req'.kind = kind /\ req'.body = body
<1>1. req'.kind = kind /\ req'.body = body
  BY DEF Send
<1>2. IsRequest(req')
  BY <1>1 DEF IsRequest
<1>3. req' # NoRequest
  BY <1>1 DEF NoRequest, Kinds
<1> QED
  BY <1>1, <1>2, <1>3

LEMMA PollInv == IInv /\ Poll => IInv'
<1> SUFFICES ASSUME IInv, Poll
             PROVE  IInv'
  OBVIOUS
<1>1. IsRequest(req') /\ req' # NoRequest /\ req'.kind = "STATUS"
  BY SendIs DEF Poll, Kinds
<1>2. Asks
  BY <1>1 DEF Poll, Asks, AsksOf, counts
<1> QED
  BY <1>2, AsksInv

LEMMA AbortUnfinishedInv == IInv /\ AbortUnfinished => IInv'
<1> SUFFICES ASSUME IInv, AbortUnfinished
             PROVE  IInv'
  OBVIOUS
<1>0. PICK txn : txn = view.txn /\ Send("ABORT", txn, <<>>)
  BY DEF AbortUnfinished
<1>1. IsRequest(req') /\ req' # NoRequest /\ req'.kind = "ABORT"
  BY <1>0, SendIs DEF Kinds
<1>2. Asks
  BY <1>1 DEF AbortUnfinished, Deciding, Asks, AsksOf, counts
<1> QED
  BY <1>2, AsksInv

LEMMA SendRevertInv == IInv /\ SendRevert => IInv'
<1> SUFFICES ASSUME IInv, SendRevert
             PROVE  IInv'
  OBVIOUS
<1>1. IsRequest(req') /\ req' # NoRequest /\ req'.kind = "REVERT"
  BY SendIs DEF SendRevert, Kinds
<1>2. Asks
  BY <1>1 DEF SendRevert, Deciding, Asks, AsksOf, counts
<1> QED
  BY <1>2, AsksInv

(* The next piece of the edit being sent: the edit the other half is         *)
(* receiving under the master half's name is of the same kind.               *)
LEMMA ContinueForwardInv == IInv /\ ContinueForward => IInv'
<1> SUFFICES ASSUME IInv, ContinueForward
             PROVE  IInv'
  OBVIOUS
<1>1. /\ req = NoRequest /\ Sending /\ StillMine /\ SendForward(fwd)
      /\ UNCHANGED <<copy, owner, view, nextTxn, fwd, agreed, slave, counts>>
  BY DEF ContinueForward
<1>2. fwd.phase \in {"splices", "data", "commit"}
  <2>1. req.kind = "none"
    BY <1>1 DEF NoRequest
  <2>2. fwd.phase # "begin"
    BY <2>1 DEF IInv, LinkInv, BeginOK
  <2> QED
    BY <1>1, <2>2, Nats DEF Sending, SendPhases, IInv
<1>3. ASSUME Other.phase = "receiving", SameSession, Master.active, Other.edit.target = Master.rev
      PROVE  Other.edit.whole = Whole(fwd)
  <2>1. ReceivingNow(Other.edit)
    BY <1>3 DEF IInv, LinkInv, EditOK, EditNow, Editing
  <2>2. fwd.rev = Master.rev
    BY <1>1 DEF StillMine
  <2> QED
    BY <1>2, <2>1, <2>2 DEF ReceivingNow
<1>4. CASE fwd.phase = "splices"
  <2>1. PICK txn, body : /\ Send("SPLICE", txn, body) /\ body.splice = Master.published.splice
    BY <1>1, <1>4 DEF SendForward
  <2>2. /\ IsRequest(req') /\ req' # NoRequest /\ req'.kind = "SPLICE"
        /\ req'.body.splice = Master.published.splice
    BY <2>1, SendIs DEF Kinds
  <2> QED
    BY <1>1, <2>2, AsksInv DEF Asks, AsksOf, counts
<1>5. CASE fwd.phase = "data"
  <2>1. PICK txn, body : /\ Send("DATA", txn, body) /\ body.piece = Piece(fwd)
    BY <1>1, <1>5 DEF SendForward
  <2>2. /\ IsRequest(req') /\ req' # NoRequest /\ req'.kind = "DATA"
        /\ req'.body.piece = Piece(fwd)
    BY <2>1, SendIs DEF Kinds
  <2>3. Asks
    BY <1>1, <1>3, <2>2 DEF Asks, AsksOf, Piece, counts
  <2> QED
    BY <2>3, AsksInv
<1>6. CASE fwd.phase = "commit"
  <2>1. PICK txn, body : Send("COMMIT", txn, body)
    BY <1>1, <1>6 DEF SendForward
  <2>2. IsRequest(req') /\ req' # NoRequest /\ req'.kind = "COMMIT"
    BY <2>1, SendIs DEF Kinds
  <2> QED
    BY <1>1, <2>2, AsksInv DEF Asks, AsksOf, counts
<1> QED
  BY <1>2, <1>4, <1>5, <1>6


LEMMA EndForwardIs ==
  ASSUME NEW f, NEW failed
  PROVE  LET g == EndForward(f, failed) IN g.phase = "none" /\ g \in Forwarding(g)
<1> DEFINE g == EndForward(f, failed)
<1>1. \/ g = [NoForward EXCEPT !.failedRev = f.rev, !.failedWhole = f.replace]
      \/ g = [NoForward EXCEPT !.failedRev = f.failedRev, !.failedWhole = f.failedWhole]
  BY DEF EndForward
<1> HIDE DEF g
<1>2. g.phase = "none" /\ g \in Forwarding(g)
  BY <1>1 DEF NoForward, Forwarding, SendPhases
<1> QED
  BY <1>2 DEF g

(* The edit being sent is given up; a timeout forgets the other half too.    *)
LEMMA StopForwardInv ==
  ASSUME IInv, UNCHANGED <<copy, owner, slave, sessions, req>>,
         fwd'.phase = "none", fwd' \in Forwarding(fwd'),
         \/ view' = view /\ agreed' = agreed /\ req = NoRequest
         \/ view' = Unheard /\ agreed' = NoAgreement
  PROVE  IInv'
<1>1. UNCHANGED <<copy, store, behind, save, mailbox, scanning, reply, sessions, req>>
  BY DEF owner, slave
<1>2. /\ Master' = Master /\ Other' = Other
      /\ CopyShapes' /\ OwnerShapes' /\ sessions' \in Nat
      /\ HalvesOK' /\ SaveOK' /\ ReplyOK' /\ NameOK'
  BY CopiesStay
<1>3. Shapes'
  <2>1. MailShapes'
    BY <1>1 DEF IInv, Shapes, MailShapes
  <2>2. LinkShapes'
    <3>1. view' \in Views(view')
      <4>1. CASE view' = view
        BY <4>1 DEF IInv, Shapes, LinkShapes
      <4>2. CASE view' = Unheard
        BY <4>2 DEF Unheard, Views, Phases
      <4> QED
        BY <4>1, <4>2
    <3>2. agreed' \in [on : BOOLEAN, session : Nat, rev : Nat]
      <4>1. CASE agreed' = agreed
        BY <4>1 DEF IInv, Shapes, LinkShapes
      <4>2. CASE agreed' = NoAgreement
        BY <4>2 DEF NoAgreement
      <4> QED
        BY <4>1, <4>2
    <3> QED
      BY <3>1, <3>2 DEF LinkShapes
  <2> QED
    BY <1>2, <2>1, <2>2 DEF Shapes
<1>4. MailOK'
  BY <1>1, <1>2 DEF IInv, MailOK, SameSession
<1>5. ViewOK'
  BY <1>1, <1>2 DEF IInv, LinkInv, ViewOK, SameSession, Unheard, Idle
<1>6. BeginOK'
  <2>1. CASE req = NoRequest
    BY <1>1, <2>1 DEF BeginOK, NoRequest
  <2>2. CASE view' = Unheard
    <3>1. BeginNow => BeginNow'
      BY <1>1, <1>2 DEF BeginNow, SameSession, SentAsSplice, SpliceTotal, MadeOn
    <3> QED
      BY <1>1, <1>2, <2>2, <3>1 DEF IInv, LinkInv, BeginOK, SameSession, Pending, Answered, Idle, Unheard
  <2> QED
    BY <2>1, <2>2
<1>7. AdoptOK'
  BY <1>1, <1>2 DEF IInv, LinkInv, AdoptOK, Unheard, NoAgreement
<1>8. EditOK'
  <2>1. EditNow(Other) => EditNow(Other)'
    BY <1>1, <1>2 DEF EditNow, SentAsSplice, SpliceTotal, MadeOn, ReceivingNow, Pending, Answered
  <2> QED
    BY <1>2, <2>1 DEF IInv, LinkInv, EditOK, SameSession, Editing
<1>9. AgreedOK'
  BY <1>1, <1>2 DEF IInv, LinkInv, AgreedOK, NoAgreement, SameSession, SentAsSplice, MadeOn
<1>10. SaveLinkOK'
  BY <1>1, <1>2 DEF IInv, SaveLinkOK, SameSession
<1> QED
  BY <1>2, <1>3, <1>4, <1>5, <1>6, <1>7, <1>8, <1>9, <1>10 DEF IInv, LinkInv

LEMMA DropForwardInv == IInv /\ DropForward => IInv'
<1> SUFFICES ASSUME IInv, DropForward
             PROVE  IInv'
  OBVIOUS
<1>1. fwd'.phase = "none" /\ fwd' \in Forwarding(fwd')
  BY EndForwardIs DEF DropForward
<1> QED
  BY <1>1, StopForwardInv DEF DropForward, counts

LEMMA TimeoutInv == IInv /\ Timeout => IInv'
<1> SUFFICES ASSUME IInv, Timeout
             PROVE  IInv'
  OBVIOUS
<1>1. fwd'.phase = "none" /\ fwd' \in Forwarding(fwd')
  BY EndForwardIs DEF Timeout
<1> QED
  BY <1>1, StopForwardInv DEF Timeout

(* ADOPT: asked of a half that holds nothing unsaved.                        *)
LEMMA SendAdoptInv == IInv /\ SendAdopt => IInv'
<1> SUFFICES ASSUME IInv, SendAdopt
             PROVE  IInv'
  OBVIOUS
<1>1. /\ req = NoRequest /\ fwd.phase = "none" /\ ~view.active
      /\ agreed' = NoAgreement
      /\ UNCHANGED <<copy, store, behind, save, mailbox, scanning, reply, sessions, view, fwd>>
      /\ UNCHANGED <<owner, slave>>
      /\ Master.active => Master.rev # 0
  BY DEF SendAdopt, Deciding, owner, slave, counts
<1>2. /\ Master' = Master /\ Other' = Other
      /\ CopyShapes' /\ OwnerShapes' /\ sessions' \in Nat
      /\ HalvesOK' /\ SaveOK' /\ ReplyOK' /\ NameOK'
  BY <1>1, CopiesStay
<1>3. /\ req'.kind = "ADOPT" /\ req'.body.session = Master.session /\ req'.body.saved = Master.saved
      /\ req'.body.rev = IF Master.active THEN Master.rev - 1 ELSE Master.rev
  BY DEF SendAdopt, Send
<1>4. req'.body.rev \in Nat /\ req'.body.rev + 1 >= Master.rev
  BY <1>1, <1>3, Nats DEF IInv
<1>5. req' # NoRequest /\ IsRequest(req')
  BY <1>3, <1>4, Nats DEF NoRequest, IsRequest, Kinds, IInv
<1>6. Shapes'
  <2>1. MailShapes'
    BY <1>1, <1>5 DEF IInv, Shapes, MailShapes
  <2>2. LinkShapes'
    <3>1. view' \in Views(view') /\ fwd' \in Forwarding(fwd')
      BY <1>1 DEF IInv, Shapes, LinkShapes
    <3>2. agreed' \in [on : BOOLEAN, session : Nat, rev : Nat]
      BY <1>1 DEF NoAgreement
    <3> QED
      BY <3>1, <3>2 DEF LinkShapes
  <2> QED
    BY <1>2, <2>1, <2>2 DEF Shapes
<1>7. MailOK'
  BY <1>1, <1>2, MailStays DEF IInv, Shapes
<1>8. ViewOK'
  BY <1>1, <1>2, <1>3, <1>5 DEF IInv, LinkInv, ViewOK, SameSession
<1>9. BeginOK'
  BY <1>1, <1>3 DEF BeginOK
<1>10. AdoptOK'
  <2>1. Master.saved <= Len(store)
    BY Nats DEF IInv, HalvesOK, HalfOK
  <2> QED
    BY <1>1, <1>2, <1>3, <2>1 DEF AdoptOK, NoAgreement
<1>11. EditOK'
  <2>1. EditNow(Other) => EditNow(Other)'
    BY <1>1, <1>2, <1>3 DEF EditNow, SentAsSplice, SpliceTotal, MadeOn, ReceivingNow
  <2> QED
    BY <1>2, <2>1 DEF IInv, LinkInv, EditOK, SameSession, Editing
<1>12. AgreedOK'
  BY <1>1 DEF AgreedOK, NoAgreement
<1>13. SaveLinkOK'
  <2>1. save = "written" => Master.saved # Len(store)
    BY Nats DEF IInv, SaveOK, HalvesOK, HalfOK
  <2> QED
    BY <1>1, <1>2, <1>3, <1>4, <2>1 DEF IInv, SaveLinkOK, SameSession
<1> QED
  BY <1>2, <1>6, <1>7, <1>8, <1>9, <1>10, <1>11, <1>12, <1>13 DEF IInv, LinkInv


(* BEGIN: the other half, when it was last heard of, was one behind.  An     *)
(* edit sent as splices was made on what both then held.                     *)
LEMMA StartForwardInv == IInv /\ StartForward => IInv'
<1> SUFFICES ASSUME IInv, StartForward
             PROVE  IInv'
  OBVIOUS
<1> DEFINE f == [fwd EXCEPT !.phase = "begin", !.replace = ~EditFits, !.rev = Master.rev,
                            !.sent = <<>>, !.txn = nextTxn]
<1>1. /\ req = NoRequest /\ fwd.phase = "none" /\ view.known /\ view.phase = "idle"
      /\ view.saved = Master.saved
      /\ Master.active /\ view.session = Master.session /\ view.rev + 1 = Master.rev
      /\ fwd' = f /\ SendForward(f)
      /\ UNCHANGED <<copy, store, behind, save, mailbox, scanning, reply, sessions, view, agreed>>
      /\ UNCHANGED <<owner, slave>>
  BY DEF StartForward, Deciding, SameSaved, Forwards, OneBehind, owner, slave, counts
<1>2. /\ Master' = Master /\ Other' = Other
      /\ CopyShapes' /\ OwnerShapes' /\ sessions' \in Nat
      /\ HalvesOK' /\ SaveOK' /\ ReplyOK' /\ NameOK'
  BY <1>1, CopiesStay
<1>3. /\ f.phase = "begin" /\ f.replace = (~EditFits) /\ f.rev = Master.rev /\ f \in Forwarding(f)
  <2>1. fwd \in Forwarding(fwd)
    BY DEF IInv, Shapes, LinkShapes
  <2>2. PICK b \in BOOLEAN : b = ~EditFits
    OBVIOUS
  <2>3. f = [fwd EXCEPT !.phase = "begin", !.replace = b, !.rev = Master.rev,
                        !.sent = <<>>, !.txn = nextTxn]
    BY <2>2
  <2> HIDE DEF f
  <2>4. f.phase = "begin" /\ f.replace = b /\ f.rev = Master.rev /\ f \in Forwarding(f)
    BY <2>1, <2>3 DEF Forwarding, SendPhases
  <2> QED
    BY <2>2, <2>4
<1> HIDE DEF f
<1>4. Whole(f) \in BOOLEAN /\ Whole(f) = (~EditFits \/ Master.published.whole)
  BY <1>3 DEF Whole
<1>5. /\ req'.kind = "BEGIN" /\ req'.body.session = Master.session
      /\ req'.body.rev = f.rev - 1
      /\ req'.body.whole = Whole(f) /\ req'.body.total = Total(f)
  BY <1>1, <1>3 DEF SendForward, Send
<1>6. view.rev \in Nat /\ Master.rev \in Nat /\ Other.rev \in Nat
  BY Nats DEF IInv
<1>7. req'.body.rev = view.rev /\ req'.body.rev + 1 = Master.rev
  BY <1>1, <1>3, <1>5, <1>6
<1>8. req' # NoRequest /\ IsRequest(req')
  <2>1. req'.body.whole \in {TRUE, FALSE}
    BY <1>4, <1>5
  <2>2. req'.body.rev \in Nat
    BY <1>6, <1>7
  <2>3. req' # NoRequest
    BY <1>5 DEF NoRequest
  <2> QED
    BY <1>5, <2>1, <2>2, <2>3 DEF IsRequest, Kinds
<1>9. Shapes'
  <2>1. MailShapes'
    BY <1>1, <1>8 DEF IInv, Shapes, MailShapes
  <2>2. LinkShapes'
    <3>1. view' \in Views(view') /\ agreed' \in [on : BOOLEAN, session : Nat, rev : Nat]
      BY <1>1 DEF IInv, Shapes, LinkShapes
    <3>2. fwd' \in Forwarding(fwd')
      BY <1>1, <1>3
    <3> QED
      BY <3>1, <3>2 DEF LinkShapes
  <2> QED
    BY <1>2, <2>1, <2>2 DEF Shapes
<1>10. MailOK'
  BY <1>1, <1>2, MailStays DEF IInv, Shapes
<1>11. SameSession => Idle(Other) /\ Other.rev >= view.rev
  <2>1. req.kind # "ADOPT"
    BY <1>1 DEF NoRequest
  <2> QED
    BY <1>1, <2>1 DEF IInv, LinkInv, ViewOK
<1>12. ViewOK'
  BY <1>1, <1>2, <1>3, <1>8, <1>11 DEF ViewOK, SameSession
<1>13. BeginOK'
  <2>1. BeginNow'
    <3>1. Whole(f) => Total(f) = Chunks
      BY DEF Total
    <3>2. ~Whole(f) => SentAsSplice /\ Total(f) = SpliceTotal /\ EditFits
      BY <1>4 DEF Total, SpliceTotal, SentAsSplice, EditFits
    <3>3. /\ ~Whole(f) /\ SameSession /\ Other.rev = req'.body.rev /\ Other.saved = Master.saved
          => MadeOn(Other.bytes)
      <4>1. SUFFICES ASSUME ~Whole(f), SameSession, Other.rev = view.rev, Other.saved = Master.saved
                     PROVE  MadeOn(Other.bytes)
        BY <1>7
      <4>2. agreed.on /\ agreed.rev = view.rev /\ SentAsSplice
        BY <3>2, <4>1 DEF EditFits
      <4> QED
        BY <1>1, <4>1, <4>2 DEF IInv, LinkInv, AgreedOK
    <3>4. Whole(fwd)' = Whole(f)
      BY <1>1, <1>2 DEF Whole
    <3> QED
      BY <1>1, <1>2, <1>3, <1>5, <3>1, <3>2, <3>3, <3>4
         DEF BeginNow, SentAsSplice, SpliceTotal, SameSession, MadeOn
  <2> QED
    BY <1>1, <1>2, <1>3, <1>5, <1>6, <1>7, <1>11, <2>1 DEF BeginOK, SameSession, Idle
<1>14. AdoptOK'
  BY <1>5 DEF AdoptOK
<1>15. EditOK'
  BY <1>2, <1>11 DEF EditOK, SameSession, Editing, Idle
<1>16. AgreedOK'
  BY <1>1, <1>2 DEF IInv, LinkInv, AgreedOK, SameSession, SentAsSplice, MadeOn
<1>17. SaveLinkOK'
  BY <1>1, <1>2, <1>5 DEF IInv, SaveLinkOK, SameSession
<1> QED
  BY <1>2, <1>9, <1>10, <1>12, <1>13, <1>14, <1>15, <1>16, <1>17 DEF IInv, LinkInv

(* Where the edit being sent goes after a reply: on, or to its end.          *)
LEMMA AfterReplyIs ==
  ASSUME fwd \in Forwarding(fwd), fwd.phase = "begin" => req.kind = "BEGIN", NEW v, NEW result
  PROVE  LET f == AfterReply(v, result)
         IN  /\ f \in Forwarding(f) /\ f.phase # "begin"
             /\ f.phase # "none" =>
                    f.replace = fwd.replace /\ f.rev = fwd.rev /\ fwd.phase # "none"
             /\ f.phase \in {"splices", "data", "commit"} =>
                    fwd.phase \in {"begin", "splices", "data", "commit"}
<1> DEFINE f == AfterReply(v, result)
<1>1. PICK sent : sent = IF fwd.phase = "data" THEN Append(fwd.sent, req.body.piece) ELSE fwd.sent
  OBVIOUS
<1>2. PICK next : next = CASE fwd.phase = "begin" /\ ~Whole(fwd) -> "splices"
                           [] fwd.phase = "commit" -> "wait"
                           [] OTHER -> IF Len(sent) = Total(fwd) THEN "commit" ELSE "data"
  OBVIOUS
<1>3. next \in {"splices", "wait", "commit", "data"} /\ (next # "wait" => fwd.phase # "commit")
  BY <1>2
<1>4. \/ f = fwd /\ (fwd.phase \in {"wait", "none"} \/ req.kind = "STATUS")
      \/ \E failed : f = EndForward(fwd, failed)
      \/ f = [fwd EXCEPT !.phase = next, !.sent = sent] /\ fwd.phase \notin {"none", "wait"}
  <2>1. CASE fwd.phase = "wait"
    BY <2>1, Zenon DEF AfterReply
  <2>2. CASE fwd.phase # "wait" /\ (fwd.phase = "none" \/ req.kind = "STATUS")
    BY <2>2, Zenon DEF AfterReply
  <2>3. CASE fwd.phase # "wait" /\ ~(fwd.phase = "none" \/ req.kind = "STATUS")
    BY <1>1, <1>2, <2>3, Zenon DEF AfterReply
  <2> QED
    BY <2>1, <2>2, <2>3
<1> HIDE DEF f
<1>5. CASE f = fwd /\ (fwd.phase \in {"wait", "none"} \/ req.kind = "STATUS")
  <2>1. f = fwd /\ fwd \in Forwarding(fwd) /\ fwd.phase # "begin"
    BY <1>5
  <2>2. f \in Forwarding(f)
    BY <2>1
  <2>3. /\ f.phase # "begin" /\ f.replace = fwd.replace /\ f.rev = fwd.rev /\ f.phase = fwd.phase
    BY <2>1
  <2>4. /\ f.phase # "none" => f.replace = fwd.replace /\ f.rev = fwd.rev /\ fwd.phase # "none"
        /\ f.phase \in {"splices", "data", "commit"} =>
               fwd.phase \in {"begin", "splices", "data", "commit"}
    BY <2>3
  <2> QED
    BY <2>2, <2>3, <2>4, Zenon DEF f
<1>6. CASE \E failed : f = EndForward(fwd, failed)
  <2>1. PICK failed : f = EndForward(fwd, failed)
    BY <1>6
  <2>2. f.phase = "none" /\ f \in Forwarding(f)
    BY <2>1, EndForwardIs
  <2> QED
    BY <2>2 DEF f
<1>7. CASE f = [fwd EXCEPT !.phase = next, !.sent = sent] /\ fwd.phase \notin {"none", "wait"}
  <2>1. f.phase = next /\ f.replace = fwd.replace /\ f.rev = fwd.rev /\ f \in Forwarding(f)
    BY <1>3, <1>7 DEF Forwarding, SendPhases
  <2>2. fwd.phase \in SendPhases
    BY DEF Forwarding
  <2>3. fwd.phase \in {"begin", "splices", "data", "commit"}
    BY <1>7, <2>2 DEF SendPhases
  <2>4. f.phase \in {"splices", "wait", "commit", "data"}
    BY <1>3, <2>1
  <2> QED
    BY <2>1, <2>3, <2>4 DEF f
<1> QED
  BY <1>4, <1>5, <1>6, <1>7 DEF f


(* A reply: the two copies as it tells are what the halves are agreed on.    *)
LEMMA ReadReplyInv == IInv /\ ReadReply => IInv'
<1> SUFFICES ASSUME IInv, ReadReply
             PROVE  IInv'
  OBVIOUS
<1> DEFINE s == reply.status
           v == Heard(s)
<1>1. /\ req # NoRequest /\ Answered /\ req' = NoRequest
      /\ view' = v /\ fwd' = AfterReply(v, reply.result)
      /\ agreed' = IF Matches(v) THEN [on |-> TRUE, session |-> v.session, rev |-> v.rev] ELSE agreed
      /\ UNCHANGED <<copy, store, behind, save, mailbox, scanning, reply, sessions>>
      /\ UNCHANGED <<owner, slave>>
  BY DEF ReadReply, owner, slave, counts
<1>2. /\ Master' = Master /\ Other' = Other
      /\ CopyShapes' /\ OwnerShapes' /\ sessions' \in Nat
      /\ HalvesOK' /\ SaveOK' /\ ReplyOK' /\ NameOK'
  BY <1>1, CopiesStay
<1>3. reply # NoReply /\ s \in Statuses(s)
  <2>1. req.kind \in Kinds
    BY <1>1 DEF IInv, Shapes, MailShapes, IsRequest
  <2>2. reply.kind = req.kind
    BY <1>1 DEF Answered
  <2>3. reply # NoReply
    BY <2>1, <2>2 DEF Kinds, NoReply
  <2> QED
    BY <2>3 DEF IInv, Shapes, MailShapes
<1>4. /\ v \in Views(v) /\ v.known
      /\ v.session = s.session /\ v.rev = s.rev /\ v.active = s.active /\ v.phase = s.phase
  BY <1>3, ViewIs
<1>5. /\ Other.session = v.session /\ Other.rev >= v.rev
      /\ Other.rev = v.rev => Other.active = v.active
      /\ v.phase = "idle" => Idle(Other)
  BY <1>3, <1>4 DEF IInv, ReplyOK
<1> HIDE DEF v, s
<1>6. /\ fwd' \in Forwarding(fwd') /\ fwd'.phase # "begin"
      /\ fwd'.phase # "none" => fwd'.replace = fwd.replace /\ fwd'.rev = fwd.rev
      /\ fwd'.phase \in {"splices", "data", "commit"} =>
             fwd.phase \in {"begin", "splices", "data", "commit"}
  <2>1. fwd \in Forwarding(fwd) /\ (fwd.phase = "begin" => req.kind = "BEGIN")
    BY DEF IInv, LinkInv, BeginOK, Shapes, LinkShapes
  <2>2. PICK result : result = reply.result
    OBVIOUS
  <2>3. fwd' = AfterReply(v, result)
    BY <1>1, <2>2
  <2> QED
    BY <2>1, <2>3, AfterReplyIs
<1>7. /\ ~Matches(v) => agreed' = agreed
      /\ Matches(v) => agreed'.on /\ agreed'.session = v.session /\ agreed'.rev = v.rev
      /\ agreed' \in [on : BOOLEAN, session : Nat, rev : Nat]
  <2>1. CASE Matches(v)
    <3>1. v.session \in Nat /\ v.rev \in Nat
      BY <1>4 DEF Views
    <3>2. agreed' = [on |-> TRUE, session |-> v.session, rev |-> v.rev]
      BY <1>1, <2>1
    <3> QED
      BY <2>1, <3>1, <3>2
  <2>2. CASE ~Matches(v)
    BY <1>1, <2>2 DEF IInv, Shapes, LinkShapes
  <2> QED
    BY <2>1, <2>2
<1>8. Shapes'
  <2>1. MailShapes'
    BY <1>1 DEF IInv, Shapes, MailShapes, IsRequest
  <2>2. LinkShapes'
    BY <1>1, <1>4, <1>6, <1>7 DEF LinkShapes
  <2> QED
    BY <1>2, <2>1, <2>2 DEF Shapes
<1>9. MailOK'
  BY <1>1, <1>2, MailStays DEF IInv, Shapes
<1>10. ViewOK'
  BY <1>1, <1>2, <1>5 DEF ViewOK, SameSession, Idle
<1>11. BeginOK'
  BY <1>1, <1>6 DEF BeginOK, NoRequest
<1>12. AdoptOK'
  BY <1>1 DEF AdoptOK, NoRequest
<1>13. EditOK'
  <2> SUFFICES ASSUME Editing(Other), SameSession
               PROVE  /\ Other.edit.target <= Master.rev
                      /\ Master.active /\ Other.edit.target = Master.rev => EditNow(Other)'
    BY <1>2 DEF EditOK, Editing, SameSession
  <2>1. /\ Other.edit.target <= Master.rev
        /\ Master.active /\ Other.edit.target = Master.rev => EditNow(Other)
    BY DEF IInv, LinkInv, EditOK
  <2>2. ReceivingNow(Other.edit) => ReceivingNow(Other.edit)'
    <3>1. fwd'.phase # "none" => Whole(fwd)' = Whole(fwd)
      BY <1>2, <1>6 DEF Whole
    <3> QED
      BY <1>1, <1>2, <1>6, <3>1 DEF ReceivingNow, Pending
  <2>3. EditNow(Other) => EditNow(Other)'
    BY <1>2, <2>2 DEF EditNow, SentAsSplice, SpliceTotal, MadeOn
  <2> QED
    BY <2>1, <2>3
<1>14. AgreedOK'
  <2>1. CASE ~Matches(v)
    BY <1>1, <1>2, <1>7, <2>1 DEF IInv, LinkInv, AgreedOK, SameSession, SentAsSplice, MadeOn
  <2>2. CASE Matches(v)
    <3>1. /\ v.session = Master.session /\ v.rev = Master.rev /\ v.active = Master.active
          /\ agreed'.session = Master.session /\ agreed'.rev = Master.rev
      BY <1>7, <2>2 DEF Matches
    <3>2. SameSession /\ Other.rev >= Master.rev
      BY <1>5, <3>1 DEF SameSession
    <3>3. ASSUME Other.rev = Master.rev, Other.saved = Master.saved
          PROVE  Other.bytes = Master.bytes
      <4>1. Other.active = Master.active
        BY <1>5, <3>1, <3>3
      <4>2. CASE Master.active
        BY <3>2, <3>3, <4>1, <4>2 DEF IInv, LinkInv, NameOK
      <4>3. CASE ~Master.active
        BY <3>3, <4>1, <4>3 DEF IInv, HalvesOK, HalfOK
      <4> QED
        BY <4>2, <4>3
    <3>4. save = "written" /\ Other.rev = Master.rev => Other.saved # Len(store)
      BY <1>5, <3>1, <3>2 DEF IInv, SaveOK, SaveLinkOK
    <3>5. Master.rev \in Nat
      BY Nats DEF IInv
    <3> QED
      BY <1>1, <1>2, <3>1, <3>2, <3>3, <3>4, <3>5 DEF AgreedOK, SameSession
  <2> QED
    BY <2>1, <2>2
<1>15. SaveLinkOK'
  BY <1>1, <1>2 DEF IInv, SaveLinkOK, SameSession, NoRequest
<1> QED
  BY <1>2, <1>8, <1>9, <1>10, <1>11, <1>12, <1>13, <1>14, <1>15 DEF IInv, LinkInv

-----------------------------------------------------------------------------
(* Steps of the other half's mailbox.                                        *)

(* What the links' other invariants see of a step of the mailbox.            *)
LEMMA LinkStays ==
  ASSUME IInv, Master' = Master, Other' = Other,
         UNCHANGED <<store, save, sync, reply, sessions>>
  PROVE  LinkInv' /\ SaveLinkOK' /\ ReplyOK'
<1>1. UNCHANGED <<store, save, view, req, fwd, agreed, reply>>
  BY DEF sync
<1>2. ViewOK'
  BY <1>1 DEF IInv, LinkInv, ViewOK, SameSession, Idle
<1>3. BeginOK'
  <2>1. BeginNow => BeginNow'
    BY <1>1 DEF BeginNow, SameSession, SentAsSplice, SpliceTotal, MadeOn, Whole
  <2> QED
    BY <1>1, <2>1 DEF IInv, LinkInv, BeginOK, SameSession, Pending, Answered, Idle
<1>4. AdoptOK'
  BY <1>1 DEF IInv, LinkInv, AdoptOK
<1>5. EditOK'
  <2>1. EditNow(Other) => EditNow(Other)'
    BY <1>1 DEF EditNow, SentAsSplice, SpliceTotal, MadeOn, ReceivingNow, Pending, Answered, Whole
  <2> QED
    BY <2>1 DEF IInv, LinkInv, EditOK, SameSession, Editing
<1>6. NameOK'
  BY DEF IInv, LinkInv, NameOK, SameSession
<1>7. AgreedOK'
  BY <1>1 DEF IInv, LinkInv, AgreedOK, SameSession, SentAsSplice, MadeOn
<1>8. SaveLinkOK'
  BY <1>1 DEF IInv, SaveLinkOK, SameSession
<1>9. ReplyOK'
  BY <1>1 DEF IInv, ReplyOK, Idle
<1> QED
  BY <1>2, <1>3, <1>4, <1>5, <1>6, <1>7, <1>8, <1>9 DEF LinkInv

LEMMA AdmittedInv == IInv /\ Admitted => IInv'
<1> SUFFICES ASSUME IInv, Admitted
             PROVE  IInv'
  OBVIOUS
<1>1. /\ req # NoRequest /\ ~Answered /\ mailbox' = req
      /\ UNCHANGED <<copy, store, behind, save, sync, req, view, fwd, agreed, scanning, reply, sessions>>
  BY DEF Admitted, owner, sync, counts
<1>2. Master' = Master /\ Other' = Other /\ CopyShapes'
  BY <1>1, SameCopies DEF IInv, Shapes, CopyShapes
<1>3. Shapes'
  <2>1. MailShapes'
    BY <1>1 DEF IInv, Shapes, MailShapes
  <2>2. LinkShapes' /\ OwnerShapes'
    BY <1>1 DEF IInv, Shapes, LinkShapes, OwnerShapes
  <2> QED
    BY <1>1, <1>2, <2>1, <2>2 DEF IInv, Shapes
<1>4. HalvesOK' /\ SaveOK'
  BY <1>1, <1>2 DEF IInv, HalvesOK, HalfOK, SaveOK
<1>5. LinkInv' /\ SaveLinkOK' /\ ReplyOK'
  BY <1>1, <1>2, LinkStays
<1>6. MailOK'
  <2>1. req.kind = "ADOPT" => req.body.session <= sessions
    BY DEF IInv, LinkInv, AdoptOK, HalvesOK, HalfOK
  <2> QED
    BY <1>1, <1>2, <2>1 DEF MailOK, Answered
<1> QED
  BY <1>3, <1>4, <1>5, <1>6 DEF IInv

LEMMA SlaveScanEndsInv == IInv /\ SlaveScanEnds => IInv'
<1> SUFFICES ASSUME IInv, SlaveScanEnds
             PROVE  IInv'
  OBVIOUS
<1>1. /\ mailbox' = NoRequest /\ scanning' = FALSE
      /\ UNCHANGED <<copy, store, behind, save, sync, req, view, fwd, agreed, reply, sessions>>
  BY DEF SlaveScanEnds, owner, sync, counts
<1>2. Master' = Master /\ Other' = Other /\ CopyShapes'
  BY <1>1, SameCopies DEF IInv, Shapes, CopyShapes
<1>3. Shapes'
  <2>1. MailShapes'
    BY <1>1 DEF IInv, Shapes, MailShapes, IsRequest
  <2>2. LinkShapes' /\ OwnerShapes'
    BY <1>1 DEF IInv, Shapes, LinkShapes, OwnerShapes
  <2> QED
    BY <1>1, <1>2, <2>1, <2>2 DEF IInv, Shapes
<1>4. HalvesOK' /\ SaveOK'
  BY <1>1, <1>2 DEF IInv, HalvesOK, HalfOK, SaveOK
<1>5. LinkInv' /\ SaveLinkOK' /\ ReplyOK'
  BY <1>1, <1>2, LinkStays
<1>6. MailOK'
  BY <1>1 DEF MailOK, NoRequest
<1> QED
  BY <1>3, <1>4, <1>5, <1>6 DEF IInv


(* A request worked off.  Unless it is the one being repeated the halves'    *)
(* sessions are apart, before and after.                                     *)
ScanStep ==
    /\ mailbox # NoRequest /\ ~scanning /\ scanning' = TRUE
    /\ Master' = Master /\ IsCopy(Other') /\ ~Other'.settling /\ Worked(Other, mailbox, Other')
    /\ reply'.kind = mailbox.kind /\ reply'.seq = mailbox.seq /\ reply'.status = Status(Other')
    /\ UNCHANGED <<store, behind, save, view, req, fwd, agreed, mailbox, sessions>>

LEMMA SlaveScanIs ==
  ASSUME IInv, SlaveScan
  PROVE  ScanStep /\ CopyShapes' /\ scanning' \in BOOLEAN
<1> DEFINE done == Process(Other, mailbox)
           d == done.copy
<1>1. /\ mailbox # NoRequest /\ ~scanning /\ scanning' = TRUE
      /\ copy' = [copy EXCEPT !["other"] = d]
      /\ reply' = [kind |-> mailbox.kind, seq |-> mailbox.seq,
                   result |-> done.result, status |-> Status(d)]
      /\ UNCHANGED <<store, behind, save, view, req, fwd, agreed, mailbox, sessions>>
  BY DEF SlaveScan, owner, sync, counts
<1>2. IsCopy(Other) /\ ~Other.settling /\ IsRequest(mailbox) /\ CopyShapes /\ IsCopy(Master)
  BY DEF IInv, Shapes, CopyShapes, MailShapes, HalvesOK
<1>3. IsCopy(d) /\ ~d.settling /\ Worked(Other, mailbox, d)
  BY <1>1, <1>2, ProcessIs
<1> HIDE DEF done
<1>4. Other' = d /\ Master' = Master /\ copy' \in [Halves -> {Master', Other'}]
  BY <1>1, <1>2, SetOther
<1>5. reply'.kind = mailbox.kind /\ reply'.seq = mailbox.seq /\ reply'.status = Status(d)
  BY <1>1
<1>6. CopyShapes'
  BY <1>2, <1>3, <1>4 DEF CopyShapes
<1> QED
  BY <1>1, <1>3, <1>4, <1>5, <1>6 DEF ScanStep

LEMMA ScanShapes ==
  ASSUME IInv, ScanStep, CopyShapes'
  PROVE  Shapes' /\ ReplyOK'
<1> DEFINE s == Status(Other')
<1>1. IsCopy(Other')
  BY DEF ScanStep
<1>2. /\ s \in Statuses(s)
      /\ s.session = Other'.session /\ s.rev = Other'.rev /\ s.active = Other'.active
      /\ s.phase = Other'.phase
  BY <1>1, StatusIs
<1> HIDE DEF s
<1>3. reply'.kind \in Kinds /\ reply'.status = s
  <2>1. IsRequest(mailbox) /\ mailbox # NoRequest
    BY DEF IInv, Shapes, MailShapes, ScanStep
  <2> QED
    BY <2>1 DEF ScanStep, IsRequest, s
<1>4. MailShapes'
  BY <1>2, <1>3 DEF IInv, Shapes, MailShapes, ScanStep
<1>5. LinkShapes' /\ OwnerShapes' /\ sessions' \in Nat
  BY DEF IInv, Shapes, LinkShapes, OwnerShapes, ScanStep
<1>6. ReplyOK'
  <2>1. Other'.rev \in Nat
    BY <1>1, CopyTypes
  <2> QED
    BY <1>2, <1>3, <2>1 DEF ReplyOK, Idle
<1> QED
  BY <1>4, <1>5, <1>6 DEF Shapes

LEMMA ScanHalves ==
  ASSUME IInv, ScanStep
  PROVE  HalvesOK' /\ SaveOK' /\ MailOK'
<1>1. Worked(Other, mailbox, Other') /\ Master' = Master /\ ~Other'.settling
      /\ UNCHANGED <<store, behind, save, view, req, fwd, agreed, mailbox, sessions>>
  BY DEF ScanStep
<1>2. HalfOK("other", Other) /\ HalfOK("master", Master)
  BY DEF IInv, HalvesOK
<1>3. HalfOK("master", Master)'
  BY <1>1, <1>2 DEF HalfOK
<1>4. HalfOK("other", Other)'
  <2>1. /\ Other'.saved = Other.saved /\ Other'.bytes = Other.bytes
        /\ ~Other'.active => ~Other.active
    BY <1>1 DEF Worked, Ended, TurnedBack, Began, Spliced, Staged, Committed, Adopted, Kept
  <2>2. Other'.session <= sessions
    <3>1. mailbox.kind = "ADOPT" => mailbox.body.session <= sessions
      BY DEF IInv, MailOK
    <3> QED
      BY <1>1, <1>2, <3>1 DEF Worked, Ended, TurnedBack, Began, Spliced, Staged, Committed, Adopted, Kept, HalfOK
  <2>3. Editing(Other') => Other'.edit.target = Other'.rev + 1
    BY <1>1, <1>2 DEF Worked, Ended, TurnedBack, Began, Spliced, Staged, Committed, Adopted, Kept, HalfOK, Editing
  <2> QED
    BY <1>1, <1>2, <2>1, <2>2, <2>3 DEF HalfOK, Editing
<1>5. HalvesOK'
  BY <1>1, <1>3, <1>4 DEF IInv, HalvesOK
<1>6. SaveOK'
  BY <1>1 DEF IInv, SaveOK
<1>7. MailOK'
  BY <1>1 DEF IInv, MailOK, ScanStep
<1> QED
  BY <1>5, <1>6, <1>7

(* A request from before a restart: nothing is compared across sessions.     *)
LEMMA ScanOld ==
  ASSUME IInv, ScanStep, mailbox # req
  PROVE  LinkInv' /\ SaveLinkOK'
<1>1. /\ Worked(Other, mailbox, Other') /\ Master' = Master
      /\ UNCHANGED <<store, behind, save, view, req, fwd, agreed, mailbox, sessions>>
  BY DEF ScanStep
<1>2. /\ ~SameSession
      /\ mailbox.kind = "ADOPT" => mailbox.body.session # Master.session
  BY DEF IInv, MailOK, ScanStep
<1>3. ~SameSession'
  BY <1>1, <1>2 DEF SameSession, Worked, Ended, TurnedBack, Began, Spliced, Staged, Committed, Adopted, Kept
<1>4. ViewOK' /\ EditOK' /\ NameOK'
  BY <1>3 DEF ViewOK, EditOK, NameOK
<1>5. BeginOK'
  <2>1. BeginNow => BeginNow'
    BY <1>1, <1>3 DEF BeginNow, SentAsSplice, SpliceTotal, Whole
  <2> QED
    BY <1>1, <1>3, <2>1 DEF IInv, LinkInv, BeginOK
<1>6. AdoptOK'
  BY <1>1 DEF IInv, LinkInv, AdoptOK
<1>7. AgreedOK'
  BY <1>1, <1>3 DEF IInv, LinkInv, AgreedOK
<1>8. SaveLinkOK'
  BY <1>1, <1>3 DEF IInv, SaveLinkOK
<1> QED
  BY <1>4, <1>5, <1>6, <1>7, <1>8 DEF LinkInv


(* The request being repeated.                                               *)
LEMMA ScanNow ==
  ASSUME IInv, ScanStep, mailbox = req
  PROVE  LinkInv' /\ SaveLinkOK'
<1>1. /\ Worked(Other, req, Other') /\ Master' = Master /\ req # NoRequest
      /\ UNCHANGED <<store, behind, save, view, req, fwd, agreed, mailbox, sessions>>
  BY DEF ScanStep
<1>2. Pending
  BY DEF IInv, MailOK, ScanStep, Pending, Answered
<1>3. ~Pending'
  BY <1>1 DEF Pending, Answered, ScanStep
<1>4. /\ Master.rev \in Nat /\ Other.rev \in Nat /\ Other'.rev \in Nat /\ view.rev \in Nat
      /\ Other.edit.target \in Nat /\ IsSeq(Other.edit.staged)
  BY Nats, CopyTypes, EditTypes DEF IInv, ScanStep, Shapes, CopyShapes
<1>5. \/ Other' = Other
      \/ /\ Kept(Other, Other')
         /\ \/ Ended(Other, Other') \/ TurnedBack(Other, req, Other') \/ Began(Other, req, Other')
            \/ Spliced(Other, req, Other') \/ Staged(Other, req, Other') \/ Committed(Other, req, Other')
      \/ Adopted(Other, req, Other')
  BY <1>1 DEF Worked, Ended, TurnedBack, Began, Spliced, Staged, Committed
<1>6. Adopted(Other, req, Other') \/
        (/\ Other'.session = Other.session /\ Other'.rev = Other.rev /\ Other'.active = Other.active
         /\ Other'.saved = Other.saved /\ Other'.bytes = Other.bytes)
  BY <1>5 DEF Kept
<1>7. ViewOK'
  <2>1. CASE Adopted(Other, req, Other')
    BY <1>1, <2>1 DEF ViewOK, Adopted
  <2>2. CASE Other' = Other
    BY <1>1, <2>2 DEF IInv, LinkInv, ViewOK, SameSession
  <2>3. CASE Began(Other, req, Other')
    BY <1>1, <1>4, <2>3 DEF IInv, LinkInv, ViewOK, BeginOK, Began, SameSession, Kept
  <2>4. CASE Ended(Other, Other') \/ TurnedBack(Other, req, Other')
    BY <1>1, <1>4, <2>4 DEF IInv, LinkInv, ViewOK, Ended, TurnedBack, SameSession, Kept
  <2>5. CASE Spliced(Other, req, Other') \/ Staged(Other, req, Other') \/ Committed(Other, req, Other')
    BY <1>1, <1>4, <2>5 DEF IInv, LinkInv, ViewOK, Spliced, Staged, Committed, SameSession, Kept
  <2> QED
    BY <1>5, <2>1, <2>2, <2>3, <2>4, <2>5
<1>8. BeginOK'
  <2>1. CASE req.kind # "BEGIN"
    BY <1>1, <2>1 DEF IInv, LinkInv, BeginOK
  <2>2. CASE req.kind = "BEGIN"
    <3>1. /\ Other'.session = Other.session /\ Other'.rev = Other.rev
          /\ Other'.saved = Other.saved /\ Other'.bytes = Other.bytes
      BY <1>6, <2>2 DEF Adopted
    <3>2. BeginNow => BeginNow'
      BY <1>1, <3>1 DEF BeginNow, SameSession, SentAsSplice, SpliceTotal, MadeOn, Whole
    <3> QED
      BY <1>1, <1>3, <3>1, <3>2 DEF IInv, LinkInv, BeginOK, SameSession
  <2> QED
    BY <2>1, <2>2
<1>9. AdoptOK'
  BY <1>1 DEF IInv, LinkInv, AdoptOK
<1>10. NameOK'
  BY <1>1, <1>6 DEF IInv, LinkInv, NameOK, SameSession, Adopted
<1>11. AgreedOK'
  <2>1. CASE Adopted(Other, req, Other')
    BY <1>1, <2>1 DEF IInv, LinkInv, AdoptOK, AgreedOK, Adopted
  <2>2. CASE ~Adopted(Other, req, Other')
    BY <1>1, <1>6, <2>2 DEF IInv, LinkInv, AgreedOK, SameSession, SentAsSplice, MadeOn
  <2> QED
    BY <2>1, <2>2
<1>12. SaveLinkOK'
  <2>1. CASE Adopted(Other, req, Other')
    BY <1>1, <2>1 DEF IInv, SaveLinkOK, Adopted
  <2>2. CASE ~Adopted(Other, req, Other')
    BY <1>1, <1>6, <2>2 DEF IInv, SaveLinkOK, SameSession
  <2> QED
    BY <2>1, <2>2
<1>13. EditOK'
  <2> SUFFICES ASSUME Editing(Other'), SameSession'
               PROVE  /\ Other'.edit.target <= Master.rev
                      /\ Master.active /\ Other'.edit.target = Master.rev => EditNow(Other)'
    BY <1>1 DEF EditOK, Editing
  <2>1. CASE Other' = Other
    <3>1. EditNow(Other) => EditNow(Other)'
      BY <1>1, <1>3, <2>1 DEF EditNow, SentAsSplice, SpliceTotal, MadeOn, ReceivingNow, Whole
    <3> QED
      BY <1>1, <2>1, <3>1 DEF IInv, LinkInv, EditOK, SameSession, Editing
  <2>2. CASE Began(Other, req, Other')
    <3>1. SameSession /\ req.kind = "BEGIN" /\ Other.rev = req.body.rev
      BY <1>1, <2>2 DEF SameSession, Began, Kept
    <3>2. Other'.edit.target = Other.rev + 1 /\ Other.rev + 1 <= Master.rev
      BY <2>2, <3>1 DEF Began, IInv, LinkInv, BeginOK
    <3>3. ASSUME Master.active, Other'.edit.target = Master.rev
          PROVE  EditNow(Other)'
      <4>1. BeginNow /\ fwd.phase \in {"none", "begin"}
        BY <3>1, <3>2, <3>3 DEF IInv, LinkInv, BeginOK
      <4>2. /\ Other'.edit.whole = req.body.whole /\ Other'.edit.total = req.body.total
            /\ Other'.edit.splice = "none" /\ Other'.edit.staged = <<>> /\ Other'.phase = "receiving"
            /\ Other'.saved = Other.saved /\ Other'.bytes = Other.bytes
        BY <2>2 DEF Began, Kept
      <4>3. ReceivingNow(Other.edit)'
        BY <1>1, <1>3, <4>1, <4>2 DEF ReceivingNow, BeginNow, Whole
      <4>4. Len(Other'.edit.staged) = 0
        BY <4>2
      <4> QED
        BY <1>1, <3>1, <4>1, <4>2, <4>3, <4>4 DEF EditNow, BeginNow, SentAsSplice, SpliceTotal, MadeOn
    <3> QED
      BY <3>2, <3>3
  <2>3. CASE Spliced(Other, req, Other')
    <3>1. /\ SameSession /\ Other.phase = "receiving" /\ Other'.edit.target = Other.edit.target
          /\ req.kind = "SPLICE" /\ ~Other.edit.whole
      BY <1>1, <2>3 DEF SameSession, Spliced, Kept
    <3>2. /\ Other.edit.target <= Master.rev
          /\ Master.active /\ Other.edit.target = Master.rev => EditNow(Other)
      BY <3>1 DEF IInv, LinkInv, EditOK, Editing
    <3>3. ASSUME EditNow(Other)
          PROVE  EditNow(Other)'
      <4>1. req.body.splice = Master.published.splice
        BY <1>2, <3>1, <3>3 DEF EditNow, ReceivingNow
      <4>2. /\ Other'.edit.whole = Other.edit.whole /\ Other'.edit.total = Other.edit.total
            /\ Other'.edit.splice = req.body.splice /\ Other'.edit.staged = Other.edit.staged
            /\ Other'.phase = "receiving" /\ Other'.saved = Other.saved /\ Other'.bytes = Other.bytes
        BY <2>3 DEF Spliced, Kept
      <4>3. ReceivingNow(Other.edit)'
        BY <1>1, <1>3, <3>1, <3>3, <4>2 DEF ReceivingNow, EditNow, Whole
      <4> QED
        BY <1>1, <3>1, <3>3, <4>1, <4>2, <4>3 DEF EditNow, SentAsSplice, SpliceTotal, MadeOn
    <3> QED
      BY <3>1, <3>2, <3>3
  <2>4. CASE Staged(Other, req, Other')
    <3>1. /\ SameSession /\ Other.phase = "receiving" /\ Other'.edit.target = Other.edit.target
          /\ req.kind = "DATA"
      BY <1>1, <2>4 DEF SameSession, Staged, Kept
    <3>2. /\ Other.edit.target <= Master.rev
          /\ Master.active /\ Other.edit.target = Master.rev => EditNow(Other)
      BY <3>1 DEF IInv, LinkInv, EditOK, Editing
    <3>3. ASSUME EditNow(Other)
          PROVE  EditNow(Other)'
      <4>1. PICK piece : /\ piece = req.body.piece
                         /\ piece = (IF Other.edit.whole THEN Master.bytes ELSE Master.published.crc[1])
        BY <1>2, <3>1, <3>3 DEF EditNow, ReceivingNow
      <4>2. /\ Other'.edit.whole = Other.edit.whole /\ Other'.edit.total = Other.edit.total
            /\ Other'.edit.splice = Other.edit.splice
            /\ Other'.edit.staged = Append(Other.edit.staged, piece)
            /\ Other'.phase = "receiving" /\ Other'.saved = Other.saved /\ Other'.bytes = Other.bytes
        BY <2>4, <4>1 DEF Staged, Kept
      <4>3. ReceivingNow(Other.edit)'
        BY <1>1, <1>3, <3>1, <3>3, <4>2 DEF ReceivingNow, EditNow, Whole
      <4>4. \A i \in 1 .. Len(Other'.edit.staged) :
                Other'.edit.staged[i] = piece \/ (i \in 1 .. Len(Other.edit.staged)
                                                  /\ Other'.edit.staged[i] = Other.edit.staged[i])
        BY <1>4, <4>2, SeqAppend
      <4> QED
        BY <1>1, <3>1, <3>3, <4>1, <4>2, <4>3, <4>4 DEF EditNow, SentAsSplice, SpliceTotal, MadeOn
    <3> QED
      BY <3>1, <3>2, <3>3
  <2>5. CASE Committed(Other, req, Other')
    <3>1. /\ SameSession /\ Other.phase = "receiving" /\ Other'.edit = Other.edit
          /\ Other'.phase = "applying" /\ Other'.saved = Other.saved /\ Other'.bytes = Other.bytes
          /\ Len(Other.edit.staged) = Other.edit.total
          /\ Other.edit.whole \/ Other.edit.splice # "none"
      BY <1>1, <2>5 DEF SameSession, Committed, Kept
    <3>2. /\ Other.edit.target <= Master.rev
          /\ Master.active /\ Other.edit.target = Master.rev => EditNow(Other)
      BY <3>1 DEF IInv, LinkInv, EditOK, Editing
    <3>3. EditNow(Other) => EditNow(Other)'
      BY <1>1, <3>1 DEF EditNow, SentAsSplice, SpliceTotal, MadeOn
    <3> QED
      BY <3>1, <3>2, <3>3
  <2>6. CASE Ended(Other, Other') \/ TurnedBack(Other, req, Other') \/ Adopted(Other, req, Other')
    BY <2>6 DEF Ended, TurnedBack, Adopted, Editing
  <2> QED
    BY <1>5, <2>1, <2>2, <2>3, <2>4, <2>5, <2>6
<1> QED
  BY <1>7, <1>8, <1>9, <1>10, <1>11, <1>12, <1>13 DEF LinkInv

LEMMA SlaveScanInv == IInv /\ SlaveScan => IInv'
<1> SUFFICES ASSUME IInv, SlaveScan
             PROVE  IInv'
  OBVIOUS
<1>1. ScanStep /\ CopyShapes'
  BY SlaveScanIs
<1>2. Shapes' /\ ReplyOK'
  BY <1>1, ScanShapes
<1>3. HalvesOK' /\ SaveOK' /\ MailOK'
  BY <1>1, ScanHalves
<1>4. LinkInv' /\ SaveLinkOK'
  BY <1>1, ScanOld, ScanNow
<1> QED
  BY <1>2, <1>3, <1>4 DEF IInv


-----------------------------------------------------------------------------
(* Steps of the master half's copy.                                          *)

(* What the link has to do with such a step: the copy keeps its name and     *)
(* bytes; or it takes the next name, and an edit was made on the bytes it    *)
(* had; or it gives its unsaved edits up for a saved profile with the same   *)
(* bytes.                                                                    *)
Renamed ==
    /\ Master'.rev = Master.rev + 1 /\ save' = "idle"
    /\ Master'.active /\ SentAsSplice' =>
           /\ Master'.saved = Master.saved
           /\ Master'.bytes = Applied(Master'.published, Master.bytes)
Rests ==
    /\ Master'.rev = Master.rev /\ ~Master'.active /\ Master'.bytes = Master.bytes /\ save' = "idle"
    /\ \/ Master'.saved = Master.saved
       \/ save = "written" /\ Master'.saved = Len(store)
SavesNow == save' = "writing" /\ Converged /\ Master.active
MasterStep ==
    /\ IsCopy(Master') /\ Other' = Other /\ Master'.session = Master.session
    /\ UNCHANGED <<store, sync, slave, sessions>>
    /\ save' # "writing" \/ save = "writing" \/ SavesNow
    /\ save' = "written" => save = "written"
    /\ Kept(Master, Master') \/ Renamed \/ Rests

LEMMA MasterLink ==
  ASSUME IInv, MasterStep
  PROVE  MailOK' /\ ReplyOK' /\ LinkInv' /\ SaveLinkOK'
<1>1. /\ Other' = Other /\ Master'.session = Master.session
      /\ UNCHANGED <<store, view, req, fwd, agreed, mailbox, scanning, reply, sessions>>
      /\ Kept(Master, Master') \/ Renamed \/ Rests
  BY DEF MasterStep, sync, slave
<1>2. /\ Master.rev \in Nat /\ Master'.rev \in Nat /\ Other.rev \in Nat /\ agreed.rev \in Nat
      /\ Other.edit.target \in Nat
      /\ req.kind = "BEGIN" => req.body.rev \in Nat
  <2>1. IsRequest(req)
    BY DEF IInv, Shapes, MailShapes
  <2>2. req.kind = "BEGIN" => req.body.rev \in Nat
    <3>1. CASE req = NoRequest
      BY <3>1 DEF NoRequest
    <3>2. CASE req # NoRequest
      BY <2>1, <3>2 DEF IsRequest
    <3> QED
      BY <3>1, <3>2
  <2>3. Master'.rev \in Nat
    BY CopyTypes DEF MasterStep
  <2> QED
    BY <2>2, <2>3, Nats DEF IInv
<1>3. MailOK'
  BY <1>1 DEF IInv, MailOK, SameSession
<1>4. ReplyOK'
  BY <1>1 DEF IInv, ReplyOK
<1>5. ViewOK'
  BY <1>1 DEF IInv, LinkInv, ViewOK, SameSession
<1>6. AdoptOK'
  BY <1>1 DEF IInv, LinkInv, AdoptOK
<1>7. BeginOK'
  <2>1. CASE Kept(Master, Master')
    <3>1. BeginNow => BeginNow'
      BY <1>1, <2>1 DEF BeginNow, SameSession, SentAsSplice, SpliceTotal, MadeOn, Whole, Kept
    <3> QED
      BY <1>1, <2>1, <3>1 DEF IInv, LinkInv, BeginOK, SameSession, Pending, Answered, Kept
  <2>2. CASE Renamed
    BY <1>1, <1>2, <2>2 DEF IInv, LinkInv, BeginOK, SameSession, Pending, Answered, Renamed
  <2>3. CASE Rests
    BY <1>1, <1>2, <2>3 DEF IInv, LinkInv, BeginOK, SameSession, Pending, Answered, Rests
  <2> QED
    BY <1>1, <2>1, <2>2, <2>3
<1>8. EditOK'
  <2>1. CASE Kept(Master, Master')
    <3>1. EditNow(Other) => EditNow(Other)'
      BY <1>1, <2>1 DEF EditNow, SentAsSplice, SpliceTotal, MadeOn, ReceivingNow, Pending, Answered, Whole, Kept
    <3> QED
      BY <1>1, <2>1, <3>1 DEF IInv, LinkInv, EditOK, SameSession, Editing, Kept
  <2>2. CASE Renamed
    BY <1>1, <1>2, <2>2 DEF IInv, LinkInv, EditOK, SameSession, Editing, Renamed
  <2>3. CASE Rests
    BY <1>1, <1>2, <2>3 DEF IInv, LinkInv, EditOK, SameSession, Editing, Rests
  <2> QED
    BY <1>1, <2>1, <2>2, <2>3
<1>9. NameOK'
  BY <1>1, <1>2 DEF IInv, LinkInv, NameOK, SameSession, Kept, Renamed, Rests
<1>10. AgreedOK'
  <2>1. CASE Kept(Master, Master')
    BY <1>1, <2>1 DEF MasterStep, IInv, LinkInv, AgreedOK, SameSession, SentAsSplice, MadeOn, Kept
  <2>2. CASE Renamed
    <3>1. SUFFICES ASSUME agreed.on
                   PROVE  AgreedOK'
      BY <1>1 DEF AgreedOK
    <3>2. agreed.session = Master.session /\ agreed.rev <= Master.rev
      BY <3>1 DEF IInv, LinkInv, AgreedOK
    <3>3. SameSession => Other.rev >= agreed.rev
      BY <3>1 DEF IInv, LinkInv, AgreedOK
    <3>4. CASE agreed.rev = Master.rev
      <4>1. Master'.rev = agreed.rev + 1 /\ Master'.rev # agreed.rev
        BY <1>2, <2>2, <3>4 DEF Renamed
      <4>2. ASSUME SameSession, Other.rev = agreed.rev, Other.saved = Master'.saved,
                   Master'.active, SentAsSplice'
            PROVE  MadeOn(Other.bytes)'
        <5>1. Other.bytes = Master.bytes
          BY <2>2, <3>1, <3>4, <4>2 DEF IInv, LinkInv, AgreedOK, Renamed
        <5> QED
          BY <1>1, <2>2, <4>2, <5>1 DEF MadeOn, Renamed
      <4> QED
        BY <1>1, <1>2, <2>2, <3>2, <3>3, <4>1, <4>2 DEF AgreedOK, SameSession, Renamed
    <3>5. CASE agreed.rev < Master.rev
      BY <1>1, <1>2, <2>2, <3>2, <3>3, <3>5 DEF AgreedOK, SameSession, Renamed
    <3> QED
      BY <1>2, <3>2, <3>4, <3>5
  <2>3. CASE Rests
    BY <1>1, <1>2, <2>3 DEF IInv, LinkInv, AgreedOK, SameSession, Rests
  <2> QED
    BY <1>1, <2>1, <2>2, <2>3
<1>11. SaveLinkOK'
  <2>1. CASE save' \notin {"writing", "written"}
    BY <2>1 DEF SaveLinkOK
  <2>2. CASE save' \in {"writing", "written"} /\ save' = save
    <3>1. Master'.rev = Master.rev
      BY <1>1, <2>2 DEF Kept, Renamed, Rests
    <3> QED
      BY <1>1, <2>2, <3>1 DEF IInv, SaveLinkOK, SameSession
  <2>3. CASE SavesNow
    <3>1. /\ view.known /\ view.session = Master.session /\ view.rev = Master.rev /\ view.active
          /\ save' = "writing"
      BY <2>3 DEF SavesNow, Converged, Matches
    <3>2. req.kind # "ADOPT"
      BY <3>1 DEF IInv, LinkInv, AdoptOK
    <3>3. SameSession => Other.rev >= Master.rev
      BY <3>1, <3>2 DEF IInv, LinkInv, ViewOK
    <3>4. Master'.rev = Master.rev
      BY <1>1, <3>1 DEF Kept, Renamed, Rests
    <3> QED
      BY <1>1, <1>2, <3>1, <3>2, <3>3, <3>4 DEF SaveLinkOK, SameSession
  <2> QED
    BY <2>1, <2>2, <2>3 DEF MasterStep
<1> QED
  BY <1>3, <1>4, <1>5, <1>6, <1>7, <1>8, <1>9, <1>10, <1>11 DEF LinkInv


LEMMA MasterInv ==
  ASSUME IInv, MasterStep, CopyShapes', OwnerShapes', SaveOK', HalfOK("master", Master)',
         Master'.phase = "receiving" => Master'.edit.total \in Nat,
         "other" \in behind' => "other" \in behind
  PROVE  IInv'
<1>1. MailOK' /\ ReplyOK' /\ LinkInv' /\ SaveLinkOK'
  BY MasterLink
<1>2. /\ Other' = Other
      /\ UNCHANGED <<store, view, req, fwd, agreed, mailbox, scanning, reply, sessions>>
  BY DEF MasterStep, sync, slave
<1>3. HalvesOK'
  BY <1>2 DEF IInv, HalvesOK, HalfOK
<1>4. LinkShapes'
  BY <1>2 DEF IInv, Shapes, LinkShapes
<1>5. MailShapes' /\ sessions' \in Nat
  BY <1>2 DEF IInv, Shapes, MailShapes
<1> QED
  BY <1>1, <1>3, <1>4, <1>5 DEF IInv, Shapes

(* The master half's copy keeps its name and bytes, and no Save is under way *)
(* that this would concern.                                                  *)
LEMMA KeptInv ==
  ASSUME IInv, NEW c, IsCopy(c), Kept(Master, c), copy' = [copy EXCEPT !["master"] = c],
         c.phase = "receiving" => c.edit.total \in Nat, ~c.settling,
         Editing(c) => c.edit.target = c.rev + 1,
         UNCHANGED <<store, behind, sync, slave, sessions>>,
         save \in {"idle", "settling"}, save' = "idle"
  PROVE  IInv'
<1>1. Master' = c /\ Other' = Other /\ copy' \in [Halves -> {Master', Other'}]
  BY SetMaster DEF IInv, Shapes
<1>2. MasterStep
  BY <1>1 DEF MasterStep, Kept
<1>3. CopyShapes' /\ OwnerShapes'
  BY <1>1 DEF IInv, Shapes, CopyShapes, OwnerShapes
<1>4. SaveOK'
  BY <1>1 DEF SaveOK
<1>5. HalfOK("master", Master)'
  BY <1>1 DEF IInv, HalvesOK, HalfOK, Kept, Editing
<1> QED
  BY <1>1, <1>2, <1>3, <1>4, <1>5, MasterInv

LEMMA NotSaving ==
  ASSUME IInv, Master.phase \in {"receiving", "applying"} \/ (Master.phase = "reverting" /\ ~Master.settling)
  PROVE  save = "idle" /\ ~Master.settling
BY DEF IInv, SaveOK, Shapes, OwnerShapes, Idle

LEMMA HostBeginsInv == IInv /\ HostBegins => IInv'
<1> SUFFICES ASSUME IInv, HostBegins
             PROVE  IInv'
  OBVIOUS
<1>1. Idle(Master) /\ ~Held /\ save' = save
  BY DEF HostBegins
<1>2. PICK kind \in Splices :
        Hosts(Begin(Master, HostTxn, Master.session, Master.rev, kind = "whole",
                    CASE kind = "add" -> 1 [] kind = "drop" -> 0 [] kind = "whole" -> Chunks).copy)
  BY DEF HostBegins
<1>3. PICK whole \in {TRUE, FALSE} : whole = (kind = "whole")
  OBVIOUS
<1>4. PICK total \in Nat :
        total = (CASE kind = "add" -> 1 [] kind = "drop" -> 0 [] kind = "whole" -> Chunks)
  BY SplicesAssumption, ChunksAssumption
<1>5. PICK txn, session, rev : txn = HostTxn /\ session = Master.session /\ rev = Master.rev
  OBVIOUS
<1> DEFINE c == Begin(Master, txn, session, rev, whole, total).copy
<1>6. /\ copy' = [copy EXCEPT !["master"] = c]
      /\ UNCHANGED <<store, behind, sync, slave, sessions>>
  BY <1>2, <1>3, <1>4, <1>5, Zenon DEF Hosts
<1>7. IsCopy(c) /\ (c = Master \/ BeganAs(Master, session, rev, whole, total, c))
  BY BeginIs DEF IInv, Shapes, CopyShapes
<1>8. save = "idle" /\ ~Master.settling
  BY <1>1 DEF Held, IInv, SaveOK
<1> HIDE DEF c
<1>9. /\ Kept(Master, c) /\ ~c.settling
      /\ c.phase = "receiving" => c.edit.total \in Nat
      /\ Editing(c) => c.edit.target = c.rev + 1
  <2>1. CASE c = Master
    BY <1>1, <1>8, <2>1 DEF Kept, Idle, Editing
  <2>2. CASE BeganAs(Master, session, rev, whole, total, c)
    BY <1>8, <2>2 DEF BeganAs, Kept
  <2> QED
    BY <1>7, <2>1, <2>2
<1> QED
  BY <1>1, <1>6, <1>7, <1>8, <1>9, KeptInv

LEMMA HostCommitsInv == IInv /\ HostCommits => IInv'
<1> SUFFICES ASSUME IInv, HostCommits
             PROVE  IInv'
  OBVIOUS
<1>1. Master.phase = "receiving" /\ save' = save /\ IsCopy(Master)
  BY DEF HostCommits, IInv, Shapes, CopyShapes
<1>2. PICK splice : splice = IF Master.edit.whole THEN "none"
                             ELSE IF Master.edit.total = 0 THEN "drop" ELSE "add"
  OBVIOUS
<1>3. PICK bytes : bytes = [i \in 1 .. Master.edit.total |-> <<changes>>]
  OBVIOUS
<1> DEFINE e == [Master.edit EXCEPT !.staged = bytes, !.splice = splice]
           staged == [Master EXCEPT !.edit = e]
           c == Commit(staged, HostTxn, staged.edit.staged).copy
<1>4. /\ copy' = [copy EXCEPT !["master"] = c]
      /\ UNCHANGED <<store, behind, sync, slave, sessions>>
  <2>1. staged = [Master EXCEPT !.edit.staged = bytes, !.edit.splice = splice]
    BY <1>1 DEF IsCopy, Copies, Edits
  <2> HIDE DEF staged
  <2> QED
    BY <1>2, <1>3, <2>1 DEF HostCommits, Hosts
<1>5. IsSeq(bytes)
  <2>1. Master.edit.total \in Nat
    BY <1>1 DEF IInv, HalvesOK
  <2> DEFINE S == {bytes[i] : i \in DOMAIN bytes}
  <2>2. bytes \in [1 .. Master.edit.total -> S]
    BY <1>3
  <2> HIDE DEF S
  <2>3. bytes \in Seq(S)
    BY <2>1, <2>2
  <2> QED
    BY <2>3 DEF IsSeq, S
<1>6. e \in Edits(e) /\ e.staged = bytes /\ e.target = Master.edit.target /\ e.total = Master.edit.total
  BY <1>1, EditTypes DEF Edits
<1> HIDE DEF e
<1>7. /\ IsCopy(staged) /\ Kept(Master, staged) /\ staged.phase = "receiving"
      /\ staged.settling = Master.settling /\ staged.edit = e
  BY <1>1, <1>5, <1>6, EditIs
<1> HIDE DEF staged
<1>8. PICK crc, txn : crc = staged.edit.staged /\ txn = HostTxn
  OBVIOUS
<1>9. /\ IsCopy(c)
      /\ \/ c = staged
         \/ Kept(staged, c) /\ c.phase = "idle" /\ ~c.settling
         \/ /\ Kept(staged, c) /\ c.phase = "applying" /\ c.settling = staged.settling
            /\ c.edit = staged.edit
  <2>1. c = Commit(staged, txn, crc).copy
    BY <1>8
  <2> QED
    BY <1>7, <2>1, CommitIs
<1> HIDE DEF c
<1>10. save = "idle" /\ ~Master.settling
  BY <1>1, NotSaving
<1>11. /\ Kept(Master, c) /\ ~c.settling
       /\ c.phase = "receiving" => c.edit.total \in Nat
       /\ Editing(c) => c.edit.target = c.rev + 1
  BY <1>1, <1>6, <1>7, <1>9, <1>10 DEF IInv, HalvesOK, HalfOK, Kept, Editing
<1> QED
  BY <1>1, <1>4, <1>9, <1>10, <1>11, KeptInv

LEMMA HostStopsInv == IInv /\ HostStops => IInv'
<1> SUFFICES ASSUME IInv, HostStops
             PROVE  IInv'
  OBVIOUS
<1> DEFINE c == Abort(Master, Master.txn).copy
<1>1. /\ Master.phase = "receiving" /\ save' = save
      /\ copy' = [copy EXCEPT !["master"] = c]
      /\ UNCHANGED <<store, behind, sync, slave, sessions>>
  BY DEF HostStops, Hosts
<1>2. /\ IsCopy(c)
      /\ c = Master \/ (Kept(Master, c) /\ c.phase = "idle" /\ ~c.settling)
  BY AbortIs DEF IInv, Shapes, CopyShapes
<1>3. save = "idle" /\ ~Master.settling
  BY <1>1, NotSaving
<1> HIDE DEF c
<1>4. /\ Kept(Master, c) /\ ~c.settling
      /\ c.phase = "receiving" => c.edit.total \in Nat
      /\ Editing(c) => c.edit.target = c.rev + 1
  BY <1>2, <1>3 DEF IInv, HalvesOK, HalfOK, Kept, Editing
<1> QED
  BY <1>1, <1>2, <1>3, <1>4, KeptInv

LEMMA HostRevertsInv == IInv /\ HostReverts => IInv'
<1> SUFFICES ASSUME IInv, HostReverts
             PROVE  IInv'
  OBVIOUS
<1> DEFINE free == Abort(Master, Master.txn).copy
           c == Revert(free, HostTxn, free.session, free.rev).copy
<1>1. /\ Master.phase \in {"idle", "receiving"} /\ ~Held /\ save' = save
      /\ copy' = [copy EXCEPT !["master"] = c]
      /\ UNCHANGED <<store, behind, sync, slave, sessions>>
  BY DEF HostReverts, Hosts
<1>2. save = "idle" /\ ~Master.settling
  BY <1>1 DEF Held, IInv, SaveOK
<1>3. /\ IsCopy(free)
      /\ free = Master \/ (Kept(Master, free) /\ free.phase = "idle" /\ ~free.settling)
  BY AbortIs DEF IInv, Shapes, CopyShapes
<1> HIDE DEF free
<1>4. /\ IsCopy(c)
      /\ \/ c = free
         \/ Kept(free, c) /\ c.phase = "idle" /\ ~c.settling
         \/ Kept(free, c) /\ c.phase = "reverting" /\ c.settling = free.settling
  BY <1>3, RevertIs
<1> HIDE DEF c
<1>5. /\ Kept(Master, c) /\ ~c.settling
      /\ c.phase = "receiving" => c.edit.total \in Nat
      /\ Editing(c) => c.edit.target = c.rev + 1
  BY <1>1, <1>2, <1>3, <1>4 DEF IInv, HalvesOK, HalfOK, Kept, Editing
<1> QED
  BY <1>1, <1>2, <1>4, <1>5, KeptInv


(* Save: with nothing to write the copy goes back to the saved profile,      *)
(* which has its bytes.                                                      *)
LEMMA HostSavesInv == IInv /\ HostSaves => IInv'
<1> SUFFICES ASSUME IInv, HostSaves
             PROVE  IInv'
  OBVIOUS
<1>1. /\ Idle(Master) /\ Master.active /\ ~Held /\ Converged /\ save = "idle" /\ "master" \notin behind
      /\ ~Master.settling /\ IsCopy(Master)
  BY DEF HostSaves, Held, IInv, SaveOK, Shapes, CopyShapes
<1>2. CASE Master.bytes = store[Master.saved]
  <2> DEFINE c == SettleSaved(Master)
  <2>1. /\ save' = "settling" /\ copy' = [copy EXCEPT !["master"] = c]
        /\ UNCHANGED <<store, behind, sync, slave, sessions>>
    BY <1>2 DEF HostSaves, Hosts
  <2>2. IsCopy(c) /\ Kept(Master, c) /\ c.phase = "reverting" /\ c.settling
    BY <1>1, SettleIs
  <2> HIDE DEF c
  <2>3. Master' = c /\ Other' = Other /\ copy' \in [Halves -> {Master', Other'}]
    BY <2>1, SetMaster DEF IInv, Shapes
  <2>4. MasterStep
    BY <2>1, <2>2, <2>3 DEF MasterStep, Kept
  <2>5. CopyShapes' /\ OwnerShapes'
    BY <2>1, <2>2, <2>3 DEF IInv, Shapes, CopyShapes, OwnerShapes
  <2>6. SaveOK'
    BY <1>1, <1>2, <2>1, <2>2, <2>3 DEF SaveOK, Kept
  <2>7. HalfOK("master", Master)'
    BY <2>1, <2>2, <2>3 DEF IInv, HalvesOK, HalfOK, Kept, Editing
  <2> QED
    BY <2>1, <2>2, <2>3, <2>4, <2>5, <2>6, <2>7, MasterInv
<1>3. CASE Master.bytes # store[Master.saved]
  <2>1. /\ save' = "writing" /\ copy' = [copy EXCEPT !["master"] = Master]
        /\ UNCHANGED <<store, behind, sync, slave, sessions>>
    BY <1>3 DEF HostSaves, Hosts
  <2>2. Master' = Master /\ Other' = Other /\ copy' \in [Halves -> {Master', Other'}]
    BY <2>1, SetMaster DEF IInv, Shapes
  <2>3. MasterStep
    BY <1>1, <2>1, <2>2 DEF MasterStep, Kept, SavesNow
  <2>4. CopyShapes' /\ OwnerShapes'
    BY <2>1, <2>2 DEF IInv, Shapes, CopyShapes, OwnerShapes
  <2>5. SaveOK'
    BY <1>1, <2>1, <2>2 DEF SaveOK, Idle
  <2>6. HalfOK("master", Master)'
    BY <2>1, <2>2 DEF IInv, HalvesOK, HalfOK, Editing
  <2> QED
    BY <1>1, <2>1, <2>2, <2>3, <2>4, <2>5, <2>6, MasterInv DEF Idle
<1> QED
  BY <1>2, <1>3

LEMMA HostScanApplyInv == IInv /\ ScanApply("master") => IInv'
<1> SUFFICES ASSUME IInv, ScanApply("master")
             PROVE  IInv'
  OBVIOUS
<1>1. Master.phase = "applying" /\ save' = save /\ IsCopy(Master)
  BY DEF ScanApply, Master, IInv, Shapes, CopyShapes
<1>2. save = "idle" /\ ~Master.settling
  BY <1>1, NotSaving
<1>3. PICK c : /\ copy' = [copy EXCEPT !["master"] = c]
               /\ UNCHANGED <<store, behind, sync, slave, sessions>>
               /\ c = Published(Master) \/ c = Finish(Master, "REFUSED")
  BY DEF ScanApply, Steps, Master
<1>4. CASE c = Finish(Master, "REFUSED")
  <2>1. IsCopy(c) /\ Kept(Master, c) /\ c.phase = "idle" /\ ~c.settling
    BY <1>1, <1>4, FinishIs
  <2> QED
    BY <1>1, <1>2, <1>3, <2>1, KeptInv DEF Editing
<1>5. CASE c = Published(Master)
  <2>1. /\ IsCopy(c)
        /\ c.session = Master.session /\ c.rev = Master.edit.target /\ c.active
        /\ c.saved = Master.saved /\ c.bytes = Result(Master) /\ c.phase = "idle" /\ ~c.settling
        /\ c.published.whole = Master.edit.whole
        /\ c.published.splice = Master.edit.splice /\ c.published.crc = Master.edit.staged
    BY <1>1, <1>5, PublishedIs
  <2>2. Master' = c /\ Other' = Other /\ copy' \in [Halves -> {Master', Other'}]
    BY <1>3, SetMaster DEF IInv, Shapes
  <2>3. c.rev = Master.rev + 1
    BY <1>1, <2>1 DEF IInv, HalvesOK, HalfOK, Editing
  <2>4. ~c.published.whole => c.bytes = Applied(c.published, Master.bytes)
    BY <2>1 DEF Result, Applied
  <2>5. MasterStep
    BY <1>1, <1>2, <1>3, <2>1, <2>2, <2>3, <2>4 DEF MasterStep, Renamed, SentAsSplice
  <2>6. CopyShapes' /\ OwnerShapes'
    BY <1>1, <1>3, <2>1, <2>2 DEF IInv, Shapes, CopyShapes, OwnerShapes
  <2>7. SaveOK'
    BY <1>1, <1>2, <2>1, <2>2 DEF SaveOK
  <2>8. HalfOK("master", Master)'
    BY <1>3, <2>1, <2>2 DEF IInv, HalvesOK, HalfOK, Editing
  <2> QED
    BY <1>3, <2>1, <2>2, <2>5, <2>6, <2>7, <2>8, MasterInv
<1> QED
  BY <1>3, <1>4, <1>5

LEMMA HostScanRevertInv == IInv /\ ScanRevert("master") => IInv'
<1> SUFFICES ASSUME IInv, ScanRevert("master")
             PROVE  IInv'
  OBVIOUS
<1> DEFINE c == Reverted(Master, store[Master.saved])
<1>1. /\ Master.phase = "reverting" /\ IsCopy(Master)
      /\ copy' = [copy EXCEPT !["master"] = c]
      /\ save' = IF Master.settling THEN "idle" ELSE save
      /\ UNCHANGED <<store, behind, sync, slave, sessions>>
  BY DEF ScanRevert, Steps, SaveAfterSettling, Master, IInv, Shapes, CopyShapes
<1>2. PICK bytes : bytes = store[Master.saved]
  OBVIOUS
<1>3. /\ IsCopy(c)
      /\ c.session = Master.session
      /\ c.rev = (IF Master.settling THEN Master.rev ELSE Master.rev + 1)
      /\ ~c.active /\ c.saved = Master.saved /\ c.bytes = bytes /\ c.phase = "idle" /\ ~c.settling
  <2>1. c = Reverted(Master, bytes)
    BY <1>2
  <2> QED
    BY <1>1, <2>1, RevertedIs
<1> HIDE DEF c
<1>4. Master' = c /\ Other' = Other /\ copy' \in [Halves -> {Master', Other'}]
  BY <1>1, SetMaster DEF IInv, Shapes
<1>5. /\ save' = "idle"
      /\ Master.settling => bytes = Master.bytes
  BY <1>1, <1>2, NotSaving DEF IInv, SaveOK
<1>6. MasterStep
  BY <1>1, <1>3, <1>4, <1>5 DEF MasterStep, Renamed, Rests
<1>7. CopyShapes' /\ OwnerShapes'
  BY <1>1, <1>3, <1>4, <1>5 DEF IInv, Shapes, CopyShapes, OwnerShapes
<1>8. SaveOK'
  BY <1>3, <1>4, <1>5 DEF SaveOK
<1>9. HalfOK("master", Master)'
  BY <1>1, <1>2, <1>3, <1>4 DEF IInv, HalvesOK, HalfOK, Editing
<1> QED
  BY <1>1, <1>3, <1>4, <1>6, <1>7, <1>8, <1>9, MasterInv

LEMMA HostRevertRefusedInv == IInv /\ ScanRevertRefused("master") => IInv'
<1> SUFFICES ASSUME IInv, ScanRevertRefused("master")
             PROVE  IInv'
  OBVIOUS
<1> DEFINE c == RevertRefused(Master)
<1>1. /\ Master.phase = "reverting" /\ IsCopy(Master)
      /\ copy' = [copy EXCEPT !["master"] = c]
      /\ save' = IF Master.settling THEN "idle" ELSE save
      /\ UNCHANGED <<store, behind, sync, slave, sessions>>
  BY DEF ScanRevertRefused, Steps, SaveAfterSettling, Master, IInv, Shapes, CopyShapes
<1>2. IsCopy(c) /\ Kept(Master, c) /\ c.phase = "idle" /\ ~c.settling
  BY <1>1, RevertRefusedIs
<1> HIDE DEF c
<1>3. save \in {"idle", "settling"} /\ save' = "idle"
  BY <1>1, NotSaving DEF IInv, SaveOK
<1> QED
  BY <1>1, <1>2, <1>3, KeptInv DEF Editing

(* The master half goes over to the saved profile: its own Save's without a  *)
(* new name, any other under the next one.                                   *)
LEMMA HostChangeoverInv == IInv /\ Changeover("master") => IInv'
<1> SUFFICES ASSUME IInv, Changeover("master")
             PROVE  IInv'
  OBVIOUS
<1> DEFINE own == save = "written"
           c == Replaced(Master, Len(store), store[Len(store)], ~own)
<1>1. /\ "master" \in behind /\ behind' = behind \ {"master"}
      /\ copy' = [copy EXCEPT !["master"] = c]
      /\ save' = IF own THEN "idle" ELSE save
      /\ UNCHANGED <<store, sync, slave, sessions>>
  BY DEF Changeover, Master, counts
<1>2. PICK bytes : bytes = store[Len(store)]
  OBVIOUS
<1>3. PICK changed \in {TRUE, FALSE} : changed = ~own
  OBVIOUS
<1>4. PICK n \in Nat : n = Len(store)
  BY Nats DEF IInv
<1>5. /\ IsCopy(c)
      /\ c.session = Master.session /\ c.rev = (IF changed THEN Master.rev + 1 ELSE Master.rev)
      /\ ~c.active /\ c.saved = n /\ c.bytes = bytes /\ c.phase = "idle"
      /\ Idle(Master) => c.settling = Master.settling
      /\ ~Idle(Master) => ~c.settling
  <2>1. c = Replaced(Master, n, bytes, changed)
    BY <1>2, <1>3, <1>4, Zenon
  <2>2. IsCopy(Master)
    BY DEF IInv, Shapes, CopyShapes
  <2> QED
    BY <2>1, <2>2, ReplacedIs
<1> HIDE DEF c
<1>6. Master' = c /\ Other' = Other /\ copy' \in [Halves -> {Master', Other'}]
  BY <1>1, SetMaster DEF IInv, Shapes
<1>7. save \in {"idle", "written"} /\ save' = "idle" /\ ~Master.settling
  BY <1>1 DEF IInv, SaveOK, Shapes, OwnerShapes
<1>8. own => bytes = Master.bytes
  BY <1>2 DEF IInv, SaveOK
<1>9. MasterStep
  <2>1. Renamed \/ Rests
    BY <1>3, <1>4, <1>5, <1>6, <1>7, <1>8 DEF Renamed, Rests
  <2> QED
    BY <1>1, <1>5, <1>6, <1>7, <2>1 DEF MasterStep
<1>10. CopyShapes' /\ OwnerShapes'
  BY <1>1, <1>5, <1>6, <1>7 DEF IInv, Shapes, CopyShapes, OwnerShapes
<1>11. SaveOK'
  BY <1>5, <1>6, <1>7 DEF SaveOK
<1>12. HalfOK("master", Master)'
  BY <1>1, <1>2, <1>4, <1>5, <1>6 DEF IInv, HalvesOK, HalfOK, Editing
<1> QED
  BY <1>1, <1>5, <1>6, <1>9, <1>10, <1>11, <1>12, MasterInv


-----------------------------------------------------------------------------
(* Steps of the stores.                                                      *)

LEMMA SaveFailsInv == IInv /\ SaveFails => IInv'
<1> SUFFICES ASSUME IInv, SaveFails
             PROVE  IInv'
  OBVIOUS
<1>1. /\ save = "writing" /\ save' = "idle"
      /\ UNCHANGED <<copy, store, behind, sync, slave, sessions>>
  BY DEF SaveFails, counts
<1>2. Master' = Master /\ Other' = Other /\ CopyShapes'
  BY <1>1, SameCopies DEF IInv, Shapes, CopyShapes
<1>3. MasterStep
  BY <1>1, <1>2 DEF MasterStep, Kept, IInv, Shapes, CopyShapes
<1>4. OwnerShapes'
  BY <1>1 DEF IInv, Shapes, OwnerShapes
<1>5. SaveOK'
  BY <1>1, <1>2 DEF IInv, SaveOK
<1>6. HalfOK("master", Master)'
  BY <1>1, <1>2 DEF IInv, HalvesOK, HalfOK
<1> QED
  BY <1>1, <1>2, <1>3, <1>4, <1>5, <1>6, MasterInv DEF IInv, HalvesOK

(* A profile is saved: no half runs it yet, and it is what the Save under    *)
(* way saves.                                                                *)
LEMMA WritesInv ==
  ASSUME IInv, NEW bytes, Writes(bytes),
         \/ save = "idle" /\ save' = "idle"
         \/ save = "writing" /\ save' = "written" /\ bytes = Master.bytes
  PROVE  IInv'
<1>1. /\ store' = Append(store, bytes) /\ behind' = Halves
      /\ UNCHANGED <<copy, view, req, fwd, agreed, mailbox, scanning, reply, sessions>>
  BY DEF Writes, sync, slave
<1>2. Master' = Master /\ Other' = Other /\ CopyShapes'
  BY <1>1, SameCopies DEF IInv, Shapes, CopyShapes
<1>3. /\ IsSeq(store') /\ Len(store) \in Nat /\ Len(store') = Len(store) + 1
      /\ \A i \in 1 .. Len(store) : store'[i] = store[i]
      /\ store'[Len(store')] = bytes
  BY <1>1, StoreAppend DEF IInv, Shapes, OwnerShapes
<1>4. Shapes'
  <2>1. OwnerShapes'
    BY <1>1, <1>3 DEF OwnerShapes
  <2>2. LinkShapes' /\ MailShapes' /\ sessions' \in Nat
    BY <1>1 DEF IInv, Shapes, LinkShapes, MailShapes
  <2> QED
    BY <1>2, <2>1, <2>2 DEF Shapes
<1>5. HalvesOK'
  BY <1>1, <1>2, <1>3 DEF IInv, HalvesOK, HalfOK, Editing
<1>6. SaveOK'
  BY <1>1, <1>2, <1>3 DEF IInv, SaveOK, Halves, Idle
<1>7. MailOK' /\ ReplyOK'
  BY <1>1, <1>2 DEF IInv, MailOK, ReplyOK, SameSession
<1>8. LinkInv'
  <2>1. ViewOK' /\ NameOK'
    BY <1>1, <1>2 DEF IInv, LinkInv, ViewOK, NameOK, SameSession
  <2>2. BeginOK'
    <3>1. BeginNow => BeginNow'
      BY <1>1, <1>2 DEF BeginNow, SameSession, SentAsSplice, SpliceTotal, MadeOn, Whole
    <3> QED
      BY <1>1, <1>2, <3>1 DEF IInv, LinkInv, BeginOK, SameSession, Pending, Answered
  <2>3. AdoptOK'
    <3>1. req.kind = "ADOPT" => req.body.saved \in Nat
      <4>1. IsRequest(req)
        BY DEF IInv, Shapes, MailShapes
      <4> QED
        BY <4>1 DEF IsRequest, NoRequest
    <3> QED
      BY <1>1, <1>2, <1>3, <3>1 DEF IInv, LinkInv, AdoptOK
  <2>4. EditOK'
    <3>1. EditNow(Other) => EditNow(Other)'
      BY <1>1, <1>2 DEF EditNow, SentAsSplice, SpliceTotal, MadeOn, ReceivingNow, Pending, Answered, Whole
    <3> QED
      BY <1>1, <1>2, <3>1 DEF IInv, LinkInv, EditOK, SameSession, Editing
  <2>5. AgreedOK'
    <3>1. Other.saved \in 1 .. Len(store)
      BY DEF IInv, HalvesOK, HalfOK
    <3>2. Other.saved # Len(store')
      BY <1>3, <3>1
    <3> QED
      BY <1>1, <1>2, <3>2 DEF IInv, LinkInv, AgreedOK, SameSession, SentAsSplice, MadeOn
  <2> QED
    BY <2>1, <2>2, <2>3, <2>4, <2>5 DEF LinkInv
<1>9. SaveLinkOK'
  <2>1. Other.saved \in 1 .. Len(store) /\ (req.kind = "ADOPT" => req.body.saved <= Len(store))
    BY DEF IInv, HalvesOK, HalfOK, LinkInv, AdoptOK
  <2>2. req.kind = "ADOPT" => req.body.saved \in Nat
    <4>1. IsRequest(req)
      BY DEF IInv, Shapes, MailShapes
    <4> QED
      BY <4>1 DEF IsRequest, NoRequest
  <2>3. Other.saved # Len(store') /\ (req.kind = "ADOPT" => req.body.saved # Len(store'))
    BY <1>3, <2>1, <2>2
  <2> QED
    BY <1>1, <1>2, <2>3 DEF IInv, SaveLinkOK, SameSession
<1> QED
  BY <1>4, <1>5, <1>6, <1>7, <1>8, <1>9 DEF IInv

LEMMA SaveWrittenInv == IInv /\ SaveWritten => IInv'
<1> SUFFICES ASSUME IInv, SaveWritten
             PROVE  IInv'
  OBVIOUS
<1>1. PICK bytes : bytes = Master.bytes /\ Writes(bytes) /\ save = "writing" /\ save' = "written"
  BY DEF SaveWritten
<1> QED
  BY <1>1, WritesInv

LEMMA HostAppliesInv == IInv /\ HostApplies => IInv'
<1> SUFFICES ASSUME IInv, HostApplies
             PROVE  IInv'
  OBVIOUS
<1>1. PICK bytes : Writes(bytes) /\ save = "idle" /\ save' = "idle"
  BY DEF HostApplies, Held
<1> QED
  BY <1>1, WritesInv

-----------------------------------------------------------------------------
(* Restarts: a session nothing has named yet.                                *)

LEMMA RestartIs ==
  ASSUME IInv, NEW h \in Halves, Restart(h)
  PROVE  \E c : /\ copy' = [copy EXCEPT ![h] = c]
                /\ IsCopy(c) /\ c.session = sessions' /\ c.rev = 0 /\ ~c.active
                /\ c.saved = Len(store) /\ c.bytes = store[Len(store)]
                /\ c.phase = "idle" /\ ~c.settling /\ ~c.published.valid
                /\ sessions' = sessions + 1 /\ behind' = behind \ {h}
                /\ UNCHANGED store
<1> DEFINE c == Booted(sessions + 1, Len(store), store[Len(store)])
<1>1. /\ copy' = [copy EXCEPT ![h] = c] /\ sessions' = sessions + 1 /\ behind' = behind \ {h}
      /\ UNCHANGED store
  BY DEF Restart
<1>2. PICK session \in Nat : session = sessions + 1
  BY Nats DEF IInv
<1>3. PICK saved \in Nat : saved = Len(store)
  BY Nats DEF IInv
<1>4. PICK bytes : bytes = store[Len(store)]
  OBVIOUS
<1>5. c = Booted(session, saved, bytes)
  BY <1>2, <1>3, <1>4
<1> HIDE DEF c
<1>6. /\ IsCopy(c) /\ c.session = session /\ c.rev = 0 /\ ~c.active /\ c.saved = saved
      /\ c.bytes = bytes /\ c.phase = "idle" /\ ~c.settling /\ ~c.published.valid
  BY <1>5, BootedIs
<1> QED
  BY <1>1, <1>2, <1>3, <1>4, <1>6

LEMMA RestartMasterInv == IInv /\ RestartMaster => IInv'
<1> SUFFICES ASSUME IInv, RestartMaster
             PROVE  IInv'
  OBVIOUS
<1>1. /\ save' = "idle" /\ view' = Unheard /\ req' = NoRequest /\ fwd' = NoForward
      /\ agreed' = NoAgreement /\ UNCHANGED <<mailbox, scanning, reply>>
  BY DEF RestartMaster, slave
<1>2. PICK c : /\ copy' = [copy EXCEPT !["master"] = c]
               /\ IsCopy(c) /\ c.session = sessions' /\ c.rev = 0 /\ ~c.active
               /\ c.saved = Len(store) /\ c.bytes = store[Len(store)]
               /\ c.phase = "idle" /\ ~c.settling /\ ~c.published.valid
               /\ sessions' = sessions + 1 /\ behind' = behind \ {"master"}
               /\ UNCHANGED store
  BY RestartIs DEF RestartMaster, Halves
<1>3. Master' = c /\ Other' = Other /\ copy' \in [Halves -> {Master', Other'}]
  BY <1>2, SetMaster DEF IInv, Shapes
<1>4. Shapes'
  <2>1. CopyShapes' /\ OwnerShapes' /\ sessions' \in Nat
    BY <1>1, <1>2, <1>3 DEF IInv, Shapes, CopyShapes, OwnerShapes
  <2>2. LinkShapes'
    BY <1>1 DEF LinkShapes, Unheard, NoForward, NoAgreement, Views, Forwarding, Phases, SendPhases
  <2>3. MailShapes'
    BY <1>1 DEF IInv, Shapes, MailShapes, IsRequest
  <2> QED
    BY <2>1, <2>2, <2>3 DEF Shapes
<1>5. /\ Other.session <= sessions /\ Other.session \in Nat /\ sessions \in Nat
      /\ Other.saved \in 1 .. Len(store)
  BY Nats DEF IInv, HalvesOK, HalfOK
<1>6. ~SameSession'
  BY <1>2, <1>3, <1>5 DEF SameSession
<1>7. HalvesOK'
  BY <1>2, <1>3, <1>5 DEF IInv, HalvesOK, HalfOK, Editing
<1>8. SaveOK'
  BY <1>1, <1>2, <1>3 DEF SaveOK
<1>9. MailOK'
  <2>1. mailbox.kind = "ADOPT" => mailbox.body.session \in Nat
    <3>1. IsRequest(mailbox)
      BY DEF IInv, Shapes, MailShapes
    <3> QED
      BY <3>1 DEF IsRequest, NoRequest
  <2> QED
    BY <1>1, <1>2, <1>3, <1>5, <1>6, <2>1 DEF IInv, MailOK
<1>10. ReplyOK'
  BY <1>1, <1>3 DEF IInv, ReplyOK
<1>11. ViewOK' /\ EditOK' /\ NameOK'
  BY <1>6 DEF ViewOK, EditOK, NameOK
<1>12. BeginOK' /\ AdoptOK' /\ AgreedOK' /\ SaveLinkOK'
  BY <1>1 DEF BeginOK, AdoptOK, AgreedOK, SaveLinkOK, NoRequest, NoForward, NoAgreement
<1> QED
  BY <1>4, <1>7, <1>8, <1>9, <1>10, <1>11, <1>12 DEF IInv, LinkInv

LEMMA RestartOtherInv == IInv /\ RestartOther => IInv'
<1> SUFFICES ASSUME IInv, RestartOther
             PROVE  IInv'
  OBVIOUS
<1>1. /\ mailbox' = NoRequest /\ scanning' = FALSE /\ reply' = NoReply
      /\ UNCHANGED <<save, view, req, fwd, agreed>>
  BY DEF RestartOther, sync
<1>2. PICK c : /\ copy' = [copy EXCEPT !["other"] = c]
               /\ IsCopy(c) /\ c.session = sessions' /\ c.rev = 0 /\ ~c.active
               /\ c.saved = Len(store) /\ c.bytes = store[Len(store)]
               /\ c.phase = "idle" /\ ~c.settling /\ ~c.published.valid
               /\ sessions' = sessions + 1 /\ behind' = behind \ {"other"}
               /\ UNCHANGED store
  BY RestartIs DEF RestartOther, Halves
<1>3. Other' = c /\ Master' = Master /\ copy' \in [Halves -> {Master', Other'}]
  BY <1>2, SetOther DEF IInv, Shapes
<1>4. Shapes'
  <2>1. CopyShapes' /\ OwnerShapes' /\ sessions' \in Nat
    BY <1>1, <1>2, <1>3 DEF IInv, Shapes, CopyShapes, OwnerShapes
  <2>2. LinkShapes'
    BY <1>1 DEF IInv, Shapes, LinkShapes
  <2>3. MailShapes'
    BY <1>1 DEF IInv, Shapes, MailShapes, IsRequest
  <2> QED
    BY <2>1, <2>2, <2>3 DEF Shapes
<1>5. /\ Master.session <= sessions /\ Master.session \in Nat /\ sessions \in Nat
      /\ Master.saved \in 1 .. Len(store)
  BY Nats DEF IInv, HalvesOK, HalfOK
<1>6. ~SameSession'
  BY <1>2, <1>3, <1>5 DEF SameSession
<1>7. HalvesOK'
  BY <1>2, <1>3, <1>5 DEF IInv, HalvesOK, HalfOK, Editing
<1>8. SaveOK'
  BY <1>1, <1>2, <1>3 DEF IInv, SaveOK
<1>9. MailOK' /\ ReplyOK'
  BY <1>1 DEF MailOK, ReplyOK, NoRequest
<1>10. ViewOK' /\ EditOK' /\ NameOK'
  BY <1>6 DEF ViewOK, EditOK, NameOK
<1>11. BeginOK'
  <2>1. BeginNow => BeginNow'
    BY <1>1, <1>3, <1>6 DEF BeginNow, SentAsSplice, SpliceTotal, Whole
  <2> QED
    BY <1>1, <1>3, <1>6, <2>1 DEF IInv, LinkInv, BeginOK
<1>12. AdoptOK' /\ AgreedOK'
  BY <1>1, <1>2, <1>3, <1>6 DEF IInv, LinkInv, AdoptOK, AgreedOK
<1>13. SaveLinkOK'
  BY <1>1, <1>2, <1>3, <1>6 DEF IInv, SaveLinkOK
<1> QED
  BY <1>4, <1>7, <1>8, <1>9, <1>10, <1>11, <1>12, <1>13 DEF IInv, LinkInv


-----------------------------------------------------------------------------
(* Steps of the other half's copy.                                           *)

(* Such a step ends what was on its way, and changes nothing or takes the    *)
(* next revision: for the edit sent, or back to a saved profile.             *)
Lands ==
    /\ Other.phase = "applying" /\ Other'.rev = Other.rev + 1
    /\ Other'.active /\ Other'.saved = Other.saved /\ Other'.bytes = Result(Other)
GoesBack == Other'.rev = Other.rev + 1 /\ ~Other'.active
OtherStep ==
    /\ CopyShapes' /\ Master' = Master /\ Other'.session = Other.session
    /\ Other'.phase = "idle" /\ ~Other'.settling
    /\ UNCHANGED <<store, save, sync, slave, sessions>>
    /\ behind' \in {behind, behind \ {"other"}}
    /\ Kept(Other, Other') \/ Lands \/ GoesBack

(* What the edit sent makes of the other half's bytes are the master half's. *)
LEMMA LandsOn ==
  ASSUME IInv, Lands, SameSession
  PROVE  /\ Other'.rev <= Master.rev
         /\ Other'.rev = Master.rev /\ Other.saved = Master.saved /\ Master.active
                => Other'.bytes = Master.bytes
<1>1. /\ Other.phase = "applying" /\ Other'.rev = Other.rev + 1 /\ Other'.bytes = Result(Other)
      /\ Other.edit.target = Other.rev + 1
  BY DEF Lands, IInv, HalvesOK, HalfOK, Editing
<1>2. /\ Other.edit.target <= Master.rev
      /\ Master.active /\ Other.edit.target = Master.rev => EditNow(Other)
  BY <1>1 DEF IInv, LinkInv, EditOK, Editing
<1>3. ASSUME Master.active, Other.edit.target = Master.rev, Other.saved = Master.saved
      PROVE  Result(Other) = Master.bytes
  <2>1. EditNow(Other)
    BY <1>2, <1>3
  <2>2. PICK s : s = Other.edit.staged /\ IsSeq(s) /\ Len(s) \in Nat /\ DOMAIN s = 1 .. Len(s)
    BY EditTypes, SeqDomain DEF IInv, Shapes, CopyShapes
  <2>3. CASE Other.edit.whole
    <3>1. Len(s) = Chunks /\ \A i \in 1 .. Len(s) : s[i] = Master.bytes
      BY <1>1, <2>1, <2>2, <2>3 DEF EditNow
    <3>2. 1 \in 1 .. Len(s)
      BY <3>1, ChunksAssumption
    <3>3. s[1] = Master.bytes /\ \A i \in DOMAIN s : s[i] = s[1]
      BY <2>2, <3>1, <3>2
    <3> QED
      BY <2>2, <2>3, <3>3 DEF Result
  <2>4. CASE ~Other.edit.whole
    <3>1. /\ Other.edit.splice = Master.published.splice /\ Len(s) = SpliceTotal
          /\ \A i \in 1 .. Len(s) : s[i] = Master.published.crc[1]
          /\ MadeOn(Other.bytes)
      BY <1>1, <1>3, <2>1, <2>2, <2>4 DEF EditNow
    <3>2. CASE Other.edit.splice = "drop"
      BY <2>4, <3>1, <3>2 DEF Result, MadeOn, Applied
    <3>3. CASE Other.edit.splice # "drop"
      <4>1. Len(s) = 1
        BY <3>1, <3>3 DEF SpliceTotal
      <4>2. s[1] = Master.published.crc[1]
        BY <3>1, <4>1
      <4> QED
        BY <2>2, <2>4, <3>1, <3>3, <4>2 DEF Result, MadeOn, Applied
    <3> QED
      BY <3>2, <3>3
  <2> QED
    BY <2>3, <2>4
<1> QED
  BY <1>1, <1>2, <1>3

LEMMA OtherInv ==
  ASSUME IInv, OtherStep, HalfOK("other", Other)'
  PROVE  IInv'
<1>1. /\ Master' = Master /\ Other'.session = Other.session /\ Other'.phase = "idle" /\ ~Other'.settling
      /\ UNCHANGED <<store, save, view, req, fwd, agreed, mailbox, scanning, reply, sessions>>
      /\ behind' \in {behind, behind \ {"other"}}
      /\ Kept(Other, Other') \/ Lands \/ GoesBack
  BY DEF OtherStep, sync, slave
<1>2. /\ Other.rev \in Nat /\ Other'.rev \in Nat /\ Master.rev \in Nat /\ view.rev \in Nat
      /\ agreed.rev \in Nat
      /\ req.kind = "BEGIN" => req.body.rev \in Nat
      /\ reply # NoReply => reply.status.rev \in Nat
  <2>1. IsRequest(req) /\ (reply # NoReply => reply.status \in Statuses(reply.status))
    BY DEF IInv, Shapes, MailShapes
  <2>2. req.kind = "BEGIN" => req.body.rev \in Nat
    <3>1. CASE req = NoRequest
      BY <3>1 DEF NoRequest
    <3>2. CASE req # NoRequest
      BY <2>1, <3>2 DEF IsRequest
    <3> QED
      BY <3>1, <3>2
  <2>3. reply # NoReply => reply.status.rev \in Nat
    BY <2>1 DEF Statuses
  <2>4. Other'.rev \in Nat
    BY CopyTypes DEF OtherStep, CopyShapes
  <2> QED
    BY <2>2, <2>3, <2>4, Nats DEF IInv
<1>3. (Other'.rev = Other.rev /\ Kept(Other, Other')) \/ Other'.rev = Other.rev + 1
  BY <1>1 DEF Kept, Lands, GoesBack
<1>4. Shapes'
  <2>1. OwnerShapes' /\ LinkShapes' /\ MailShapes' /\ sessions' \in Nat
    BY <1>1 DEF IInv, Shapes, OwnerShapes, LinkShapes, MailShapes
  <2> QED
    BY <2>1 DEF OtherStep, Shapes
<1>5. HalvesOK' /\ SaveOK'
  BY <1>1 DEF IInv, HalvesOK, HalfOK, SaveOK
<1>6. MailOK'
  BY <1>1 DEF IInv, MailOK, SameSession
<1>7. ReplyOK'
  BY <1>1, <1>2, <1>3 DEF IInv, ReplyOK, Idle, Kept
<1>8. ViewOK'
  BY <1>1, <1>2, <1>3 DEF IInv, LinkInv, ViewOK, SameSession, Idle
<1>9. BeginOK'
  <2>1. req.kind = "BEGIN" /\ SameSession => Other.rev >= req.body.rev
    BY DEF IInv, LinkInv, BeginOK
  <2>2. req.kind = "BEGIN" /\ BeginNow => BeginNow'
    <3>1. CASE Kept(Other, Other')
      BY <1>1, <3>1 DEF BeginNow, SameSession, SentAsSplice, SpliceTotal, MadeOn, Whole, Kept
    <3>2. CASE Other'.rev = Other.rev + 1
      BY <1>1, <1>2, <2>1, <3>2 DEF BeginNow, SameSession, SentAsSplice, SpliceTotal, Whole
    <3> QED
      BY <1>3, <3>1, <3>2
  <2> QED
    BY <1>1, <1>2, <1>3, <2>1, <2>2 DEF IInv, LinkInv, BeginOK, SameSession, Pending, Answered, Idle
<1>10. AdoptOK'
  BY <1>1 DEF IInv, LinkInv, AdoptOK
<1>11. EditOK'
  BY <1>1 DEF EditOK, Editing
<1>12. NameOK'
  <2>1. CASE Kept(Other, Other')
    BY <1>1, <2>1 DEF IInv, LinkInv, NameOK, SameSession, Kept
  <2>2. CASE Lands
    BY <1>1, <2>2, LandsOn DEF NameOK, SameSession, Lands
  <2>3. CASE GoesBack
    BY <2>3 DEF NameOK, GoesBack
  <2> QED
    BY <1>1, <2>1, <2>2, <2>3
<1>13. AgreedOK'
  <2>1. CASE Kept(Other, Other')
    BY <1>1, <2>1 DEF IInv, LinkInv, AgreedOK, SameSession, SentAsSplice, MadeOn, Kept
  <2>2. CASE Other'.rev = Other.rev + 1
    BY <1>1, <1>2, <2>2 DEF IInv, LinkInv, AgreedOK, SameSession
  <2> QED
    BY <1>3, <2>1, <2>2
<1>14. SaveLinkOK'
  <2>1. CASE Kept(Other, Other')
    BY <1>1, <2>1 DEF IInv, SaveLinkOK, SameSession, Kept
  <2>2. CASE GoesBack
    BY <1>1, <1>2, <2>2 DEF IInv, SaveLinkOK, SameSession, GoesBack
  <2>3. CASE Lands
    <3>1. SameSession => Other'.rev <= Master.rev
      BY <2>3, LandsOn
    <3>2. Other'.rev = Other.rev + 1 /\ Other'.saved = Other.saved
      BY <2>3 DEF Lands
    <3> QED
      BY <1>1, <1>2, <3>1, <3>2 DEF IInv, SaveLinkOK, SameSession
  <2> QED
    BY <1>1, <2>1, <2>2, <2>3
<1> QED
  BY <1>4, <1>5, <1>6, <1>7, <1>8, <1>9, <1>10, <1>11, <1>12, <1>13, <1>14 DEF IInv, LinkInv

LEMMA OtherScanApplyInv == IInv /\ ScanApply("other") => IInv'
<1> SUFFICES ASSUME IInv, ScanApply("other")
             PROVE  IInv'
  OBVIOUS
<1>1. Other.phase = "applying" /\ save' = save /\ IsCopy(Other)
  BY DEF ScanApply, Other, IInv, Shapes, CopyShapes
<1>2. PICK c : /\ copy' = [copy EXCEPT !["other"] = c]
               /\ UNCHANGED <<store, behind, sync, slave, sessions>>
               /\ c = Published(Other) \/ c = Finish(Other, "REFUSED")
  BY DEF ScanApply, Steps, Other
<1>3. Other' = c /\ Master' = Master /\ copy' \in [Halves -> {Master', Other'}]
  BY <1>2, SetOther DEF IInv, Shapes
<1>4. CASE c = Finish(Other, "REFUSED")
  <2>1. IsCopy(c) /\ Kept(Other, c) /\ c.phase = "idle" /\ ~c.settling
    BY <1>1, <1>4, FinishIs
  <2>2. OtherStep
    BY <1>1, <1>2, <1>3, <2>1 DEF OtherStep, IInv, Shapes, CopyShapes, Kept
  <2>3. HalfOK("other", Other)'
    BY <1>2, <1>3, <2>1 DEF IInv, HalvesOK, HalfOK, Kept, Editing
  <2> QED
    BY <2>2, <2>3, OtherInv
<1>5. CASE c = Published(Other)
  <2>1. /\ IsCopy(c)
        /\ c.session = Other.session /\ c.rev = Other.edit.target /\ c.active
        /\ c.saved = Other.saved /\ c.bytes = Result(Other) /\ c.phase = "idle" /\ ~c.settling
    BY <1>1, <1>5, PublishedIs
  <2>2. c.rev = Other.rev + 1
    BY <1>1, <2>1 DEF IInv, HalvesOK, HalfOK, Editing
  <2>3. OtherStep
    BY <1>1, <1>2, <1>3, <2>1, <2>2 DEF OtherStep, Lands, IInv, Shapes, CopyShapes
  <2>4. HalfOK("other", Other)'
    BY <1>2, <1>3, <2>1 DEF IInv, HalvesOK, HalfOK, Editing
  <2> QED
    BY <2>3, <2>4, OtherInv
<1> QED
  BY <1>2, <1>4, <1>5

LEMMA OtherScanRevertInv == IInv /\ ScanRevert("other") => IInv'
<1> SUFFICES ASSUME IInv, ScanRevert("other")
             PROVE  IInv'
  OBVIOUS
<1> DEFINE c == Reverted(Other, store[Other.saved])
<1>1. /\ Other.phase = "reverting" /\ IsCopy(Other) /\ ~Other.settling
      /\ copy' = [copy EXCEPT !["other"] = c] /\ save' = save
      /\ UNCHANGED <<store, behind, sync, slave, sessions>>
  BY DEF ScanRevert, Steps, SaveAfterSettling, Other, IInv, Shapes, CopyShapes, HalvesOK
<1>2. PICK bytes : bytes = store[Other.saved]
  OBVIOUS
<1>3. /\ IsCopy(c) /\ c.session = Other.session /\ c.rev = Other.rev + 1
      /\ ~c.active /\ c.saved = Other.saved /\ c.bytes = bytes /\ c.phase = "idle" /\ ~c.settling
  <2>1. c = Reverted(Other, bytes)
    BY <1>2
  <2> QED
    BY <1>1, <2>1, RevertedIs
<1> HIDE DEF c
<1>4. Other' = c /\ Master' = Master /\ copy' \in [Halves -> {Master', Other'}]
  BY <1>1, SetOther DEF IInv, Shapes
<1>5. OtherStep
  BY <1>1, <1>3, <1>4 DEF OtherStep, GoesBack, IInv, Shapes, CopyShapes
<1>6. HalfOK("other", Other)'
  BY <1>1, <1>2, <1>3, <1>4 DEF IInv, HalvesOK, HalfOK, Editing
<1> QED
  BY <1>5, <1>6, OtherInv

LEMMA OtherRevertRefusedInv == IInv /\ ScanRevertRefused("other") => IInv'
<1> SUFFICES ASSUME IInv, ScanRevertRefused("other")
             PROVE  IInv'
  OBVIOUS
<1> DEFINE c == RevertRefused(Other)
<1>1. /\ IsCopy(Other)
      /\ copy' = [copy EXCEPT !["other"] = c] /\ save' = save
      /\ UNCHANGED <<store, behind, sync, slave, sessions>>
  BY DEF ScanRevertRefused, Steps, SaveAfterSettling, Other, IInv, Shapes, CopyShapes
<1>2. IsCopy(c) /\ Kept(Other, c) /\ c.phase = "idle" /\ ~c.settling
  BY <1>1, RevertRefusedIs
<1> HIDE DEF c
<1>3. Other' = c /\ Master' = Master /\ copy' \in [Halves -> {Master', Other'}]
  BY <1>1, SetOther DEF IInv, Shapes
<1>4. OtherStep
  BY <1>1, <1>2, <1>3 DEF OtherStep, IInv, Shapes, CopyShapes, Kept
<1>5. HalfOK("other", Other)'
  BY <1>1, <1>2, <1>3 DEF IInv, HalvesOK, HalfOK, Kept, Editing
<1> QED
  BY <1>4, <1>5, OtherInv

LEMMA OtherChangeoverInv == IInv /\ Changeover("other") => IInv'
<1> SUFFICES ASSUME IInv, Changeover("other")
             PROVE  IInv'
  OBVIOUS
<1> DEFINE c == Replaced(Other, Len(store), store[Len(store)], TRUE)
<1>1. /\ "other" \in behind /\ behind' = behind \ {"other"} /\ save' = save
      /\ copy' = [copy EXCEPT !["other"] = c]
      /\ UNCHANGED <<store, sync, slave, sessions>>
  BY DEF Changeover, Other, counts
<1>2. PICK bytes : bytes = store[Len(store)]
  OBVIOUS
<1>3. PICK changed \in {TRUE, FALSE} : changed = TRUE
  OBVIOUS
<1>4. PICK n \in Nat : n = Len(store)
  BY Nats DEF IInv
<1>5. /\ IsCopy(c)
      /\ c.session = Other.session /\ c.rev = Other.rev + 1
      /\ ~c.active /\ c.saved = n /\ c.bytes = bytes /\ c.phase = "idle" /\ ~c.settling
  <2>1. c = Replaced(Other, n, bytes, changed)
    BY <1>2, <1>3, <1>4, Zenon
  <2>2. IsCopy(Other) /\ ~Other.settling
    BY DEF IInv, Shapes, CopyShapes, HalvesOK
  <2> HIDE DEF c
  <2>3. /\ IsCopy(c)
        /\ c.session = Other.session /\ c.rev = (IF changed THEN Other.rev + 1 ELSE Other.rev)
        /\ ~c.active /\ c.saved = n /\ c.bytes = bytes /\ c.phase = "idle"
        /\ Idle(Other) => c.settling = Other.settling
        /\ ~Idle(Other) => ~c.settling
    BY <2>1, <2>2, ReplacedIs
  <2> QED
    BY <1>3, <2>2, <2>3 DEF c
<1> HIDE DEF c
<1>6. Other' = c /\ Master' = Master /\ copy' \in [Halves -> {Master', Other'}]
  BY <1>1, SetOther DEF IInv, Shapes
<1>7. OtherStep
  BY <1>1, <1>5, <1>6 DEF OtherStep, GoesBack, IInv, Shapes, CopyShapes
<1>8. HalfOK("other", Other)'
  BY <1>1, <1>2, <1>4, <1>5, <1>6 DEF IInv, HalvesOK, HalfOK, Editing
<1> QED
  BY <1>7, <1>8, OtherInv

-----------------------------------------------------------------------------
(* The invariant holds.                                                      *)

LEMMA InitInv == Init => IInv
<1> SUFFICES ASSUME Init
             PROVE  IInv
  OBVIOUS
<1>1. /\ Master = Booted(1, 1, <<>>) /\ Other = Booted(2, 1, <<>>)
      /\ copy \in [Halves -> {Master, Other}]
  BY DEF Init, Halves, Master, Other
<1>2. PICK bytes : bytes = <<>>
  OBVIOUS
<1>3. /\ IsCopy(Master) /\ Master.session = 1 /\ Master.rev = 0 /\ ~Master.active /\ Master.saved = 1
      /\ Master.bytes = bytes /\ Master.phase = "idle" /\ ~Master.settling
  BY <1>1, <1>2, BootedIs
<1>4. /\ IsCopy(Other) /\ Other.session = 2 /\ Other.rev = 0 /\ ~Other.active /\ Other.saved = 1
      /\ Other.bytes = bytes /\ Other.phase = "idle" /\ ~Other.settling
  BY <1>1, <1>2, BootedIs
<1>5. /\ IsSeq(store) /\ Len(store) = 1 /\ store[1] = bytes
  BY <1>2 DEF Init, IsSeq
<1>6. Shapes
  <2>1. LinkShapes
    BY DEF Init, LinkShapes, Unheard, NoForward, NoAgreement, Views, Forwarding, Phases, SendPhases
  <2>2. MailShapes /\ OwnerShapes
    BY <1>5 DEF Init, MailShapes, IsRequest, OwnerShapes
  <2> QED
    BY <1>1, <1>3, <1>4, <2>1, <2>2 DEF Init, Shapes, CopyShapes
<1>7. HalvesOK /\ SaveOK
  BY <1>3, <1>4, <1>5 DEF Init, HalvesOK, HalfOK, SaveOK, Editing
<1>8. MailOK /\ ReplyOK /\ ViewOK /\ BeginOK /\ AdoptOK /\ AgreedOK /\ SaveLinkOK
  BY DEF Init, MailOK, ReplyOK, ViewOK, BeginOK, AdoptOK, AgreedOK, SaveLinkOK, NoRequest, NoForward,
         NoAgreement, Unheard
<1>9. EditOK /\ NameOK
  BY <1>3, <1>4 DEF EditOK, NameOK, SameSession
<1> QED
  BY <1>6, <1>7, <1>8, <1>9 DEF IInv, LinkInv

LEMMA StutterInv == IInv /\ UNCHANGED vars => IInv'
<1> SUFFICES ASSUME IInv, UNCHANGED vars
             PROVE  IInv'
  OBVIOUS
<1>1. UNCHANGED <<copy, store, behind, save, sync, view, req, fwd, agreed, mailbox, scanning, reply,
                  sessions>>
  BY DEF vars, owner, sync, slave, counts
<1>2. Master' = Master /\ Other' = Other /\ CopyShapes'
  BY <1>1, SameCopies DEF IInv, Shapes, CopyShapes
<1>3. Shapes'
  BY <1>1, <1>2 DEF IInv, Shapes, LinkShapes, OwnerShapes, MailShapes
<1>4. HalvesOK' /\ SaveOK' /\ MailOK'
  BY <1>1, <1>2 DEF IInv, HalvesOK, HalfOK, SaveOK, MailOK, SameSession
<1>5. LinkInv' /\ SaveLinkOK' /\ ReplyOK'
  BY <1>1, <1>2, LinkStays
<1> QED
  BY <1>3, <1>4, <1>5 DEF IInv

LEMMA NextInv == IInv /\ [Next]_vars => IInv'
<1> SUFFICES ASSUME IInv, [Next]_vars
             PROVE  IInv'
  OBVIOUS
<1>1. CASE MasterLoop
  BY <1>1, ContinueForwardInv, DropForwardInv, PollInv, ReadReplyInv DEF MasterLoop
<1>2. CASE Decide
  BY <1>2, AbortUnfinishedInv, StartForwardInv, SendRevertInv, SendAdoptInv DEF Decide
<1>3. CASE Timeout \/ Admitted \/ OtherLoop
  BY <1>3, TimeoutInv, AdmittedInv, SlaveScanInv, SlaveScanEndsInv DEF OtherLoop
<1>4. CASE CopyScan("master") \/ ScanRevertRefused("master")
  BY <1>4, HostScanApplyInv, HostScanRevertInv, HostChangeoverInv, HostRevertRefusedInv DEF CopyScan
<1>5. CASE CopyScan("other") \/ ScanRevertRefused("other")
  BY <1>5, OtherScanApplyInv, OtherScanRevertInv, OtherChangeoverInv, OtherRevertRefusedInv DEF CopyScan
<1>6. CASE Host
  BY <1>6, HostBeginsInv, HostCommitsInv, HostStopsInv, HostRevertsInv, HostSavesInv, HostAppliesInv
     DEF Host
<1>7. CASE SaveWritten \/ SaveFails \/ RestartMaster \/ RestartOther
  BY <1>7, SaveWrittenInv, SaveFailsInv, RestartMasterInv, RestartOtherInv
<1>8. CASE UNCHANGED vars
  BY <1>8, StutterInv
<1> QED
  BY <1>1, <1>2, <1>3, <1>4, <1>5, <1>6, <1>7, <1>8 DEF Next, Halves


(* What a Save under way does to the master half's copy, step by step.       *)
LEMMA SavingStep ==
  ASSUME IInv, Next, save # "idle", Master'.session = Master.session
  PROVE  Master'.bytes = Master.bytes /\ Master'.rev = Master.rev
<1>0. CopyShapes
  BY DEF IInv, Shapes
<1>1. Master.phase \notin {"receiving", "applying"} /\ (Master.phase = "reverting" => Master.settling)
  BY NotSaving
<1>2. CASE \/ MasterLoop \/ Decide \/ Timeout \/ Admitted \/ SlaveScanEnds
           \/ SaveWritten \/ SaveFails
  <2>1. UNCHANGED copy
    BY <1>2 DEF MasterLoop, ContinueForward, DropForward, Poll, ReadReply, Decide, AbortUnfinished,
                StartForward, SendRevert, SendAdopt, Timeout, Admitted, SlaveScanEnds,
                SaveWritten, SaveFails, Writes
  <2> QED
    BY <2>1 DEF Master
<1>3. CASE SlaveScan
  BY <1>3, SlaveScanIs DEF ScanStep
<1>4. CASE CopyScan("other") \/ ScanRevertRefused("other") \/ RestartOther
  <2>1. \E c : copy' = [copy EXCEPT !["other"] = c]
    BY <1>4 DEF CopyScan, ScanApply, ScanRevert, ScanRevertRefused, Changeover, RestartOther,
                Restart, Steps
  <2> QED
    BY <1>0, <2>1, SetOther
<1>5. CASE Host \/ ScanApply("master")
  BY <1>1, <1>5 DEF Host, HostBegins, HostCommits, HostStops, HostReverts, HostSaves, HostApplies,
                    Held, ScanApply, Master
<1>6. CASE ScanRevert("master")
  <2> DEFINE c == Reverted(Master, store[Master.saved])
  <2>1. /\ Master.phase = "reverting" /\ IsCopy(Master) /\ copy' = [copy EXCEPT !["master"] = c]
    BY <1>0, <1>6 DEF ScanRevert, Steps, Master, CopyShapes
  <2>2. Master.settling /\ store[Master.saved] = Master.bytes
    BY <1>1, <2>1 DEF IInv, SaveOK
  <2>3. c.rev = Master.rev /\ c.bytes = Master.bytes
    <3>1. PICK bytes : bytes = store[Master.saved]
      OBVIOUS
    <3>2. c = Reverted(Master, bytes)
      BY <3>1
    <3> HIDE DEF c
    <3>3. c.rev = (IF Master.settling THEN Master.rev ELSE Master.rev + 1) /\ c.bytes = bytes
      BY <2>1, <3>2, RevertedIs
    <3> QED
      BY <2>2, <3>1, <3>3 DEF c
  <2> HIDE DEF c
  <2> QED
    BY <1>0, <2>1, <2>3, SetMaster
<1>7. CASE ScanRevertRefused("master")
  <2>1. copy' = [copy EXCEPT !["master"] = RevertRefused(Master)] /\ IsCopy(Master)
    BY <1>0, <1>7 DEF ScanRevertRefused, Steps, Master, CopyShapes
  <2>2. Kept(Master, RevertRefused(Master))
    BY <2>1, RevertRefusedIs
  <2> QED
    BY <1>0, <2>1, <2>2, SetMaster DEF Kept
<1>8. CASE Changeover("master")
  <2> DEFINE c == Replaced(Master, Len(store), store[Len(store)], FALSE)
  <2>1. "master" \in behind /\ save = "written"
    BY <1>8 DEF Changeover, IInv, SaveOK, Shapes, OwnerShapes
  <2>2. copy' = [copy EXCEPT !["master"] = c] /\ IsCopy(Master)
    BY <1>0, <1>8, <2>1 DEF Changeover, Master, CopyShapes
  <2>3. c.rev = Master.rev /\ c.bytes = store[Len(store)]
    <3>1. PICK bytes : bytes = store[Len(store)]
      OBVIOUS
    <3>2. PICK changed \in {TRUE, FALSE} : changed = FALSE
      OBVIOUS
    <3>3. PICK n \in Nat : n = Len(store)
      BY Nats DEF IInv
    <3>4. c = Replaced(Master, n, bytes, changed)
      BY <3>1, <3>2, <3>3, Zenon
    <3> HIDE DEF c
    <3>5. c.rev = (IF changed THEN Master.rev + 1 ELSE Master.rev) /\ c.bytes = bytes
      BY <2>2, <3>4, ReplacedIs
    <3> QED
      BY <3>1, <3>2, <3>5 DEF c
  <2> HIDE DEF c
  <2>4. Master.bytes = store[Len(store)]
    BY <2>1 DEF IInv, SaveOK
  <2> QED
    BY <1>0, <2>2, <2>3, <2>4, SetMaster
<1>9. CASE RestartMaster
  <2>1. Master' # Master /\ Master'.session = sessions + 1
    <3>1. PICK c : copy' = [copy EXCEPT !["master"] = c] /\ c.session = sessions' /\ sessions' = sessions + 1
      BY <1>9, RestartIs DEF RestartMaster, Halves
    <3>2. Master'.session = sessions + 1
      BY <1>0, <3>1, SetMaster
    <3>3. Master.session <= sessions /\ Master.session \in Nat /\ sessions \in Nat
      BY Nats DEF IInv, HalvesOK, HalfOK
    <3> QED
      BY <3>2, <3>3
  <2>2. Master.session <= sessions /\ Master.session \in Nat /\ sessions \in Nat
    BY Nats DEF IInv, HalvesOK, HalfOK
  <2> QED
    BY <2>1, <2>2
<1> QED
  BY <1>2, <1>3, <1>4, <1>5, <1>6, <1>7, <1>8, <1>9 DEF Next, OtherLoop, CopyScan, Halves

(* A scan takes only a request that the last reply does not answer.          *)
LEMMA ScanOnce ==
  ASSUME IInv, Next, ~scanning, scanning'
  PROVE  reply.kind # mailbox.kind \/ reply.seq # mailbox.seq
<1>1. SlaveScan
  BY DEF Next, MasterLoop, ContinueForward, DropForward, Poll, ReadReply, Decide, AbortUnfinished,
         StartForward, SendRevert, SendAdopt, Timeout, Admitted, OtherLoop, SlaveScanEnds, CopyScan,
         ScanApply, ScanRevert, ScanRevertRefused, Changeover, Steps, Host, HostBegins, HostCommits,
         HostStops, HostReverts, HostSaves, HostApplies, Hosts, Writes, SaveWritten, SaveFails,
         RestartMaster, RestartOther, slave
<1> QED
  BY <1>1 DEF SlaveScan, IInv, MailOK

-----------------------------------------------------------------------------
(* IInv is an inductive invariant.                                           *)
THEOREM Inductive == Spec => []IInv
<1>1. Init => IInv
  BY InitInv
<1>2. IInv /\ [Next]_vars => IInv'
  BY NextInv
<1> QED
  BY <1>1, <1>2, PTL DEF Spec

(* Every variable keeps its shape; what the bytes of a profile look like is  *)
(* left open.                                                                *)
THEOREM TypeCorrect == Spec => []Shapes
<1>1. IInv => Shapes
  BY DEF IInv
<1> QED
  BY <1>1, Inductive, PTL

(* Under one session and revision, over one saved profile, both halves hold  *)
(* the same bytes (profile_working_sync.c slave_matches).                    *)
THEOREM SameBytes == Spec => []SameNameSameBytes
<1>1. IInv => SameNameSameBytes
  <2> SUFFICES ASSUME IInv, Idle(Master), Idle(Other), Master.saved = Other.saved,
                      Master.session = Other.session, Master.rev = Other.rev,
                      Master.active = Other.active
               PROVE  Master.bytes = Other.bytes
    BY DEF SameNameSameBytes
  <2>1. CASE Master.active
    BY <2>1 DEF IInv, LinkInv, NameOK, SameSession
  <2>2. CASE ~Master.active
    BY <2>2 DEF IInv, HalvesOK, HalfOK
  <2> QED
    BY <2>1, <2>2
<1> QED
  BY <1>1, Inductive, PTL

(* A save, whichever way it ends, changes neither what the keyboard does nor *)
(* the name the client holds (profile_owner.c save, observe_working).        *)
THEOREM SavesQuiet == Spec => SavesChangeNothing
<1>1. IInv /\ [Next]_vars =>
        [save # "idle" /\ Master'.session = Master.session =>
             Master'.bytes = Master.bytes /\ Master'.rev = Master.rev]_vars
  BY SavingStep
<1> QED
  BY <1>1, Inductive, PTL DEF Spec, SavesChangeNothing

(* No request the other half has answered is run again                       *)
(* (noah_profile_working_sync_receive).                                      *)
THEOREM NeverTwice == Spec => NothingRunsTwice
<1>1. IInv /\ [Next]_vars =>
        [~scanning /\ scanning' => reply.kind # mailbox.kind \/ reply.seq # mailbox.seq]_vars
  BY ScanOnce
<1> QED
  BY <1>1, Inductive, PTL DEF Spec, NothingRunsTwice
================================================================================
