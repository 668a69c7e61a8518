--------------------------- MODULE MigrationsProofs ---------------------------
(***************************************************************************)
(* What opening the database leaves in the files, for any number of        *)
(* processes, files, versions and crashes.  A connection stays with its    *)
(* file; what an opener has seen of that file inside its transaction is    *)
(* still true at the commit, because the file has one writer; and a path   *)
(* that is what it was has been it all along, because files do not come    *)
(* back.                                                                   *)
(***************************************************************************)
EXTENDS Migrations, SequenceTheorems, TLAPS

Writing == {"reserve", "source", "copy", "publish", "apply"}
Steps == {"idle", "open", "identify", "preflight", "configure", "begin", "ready"} \cup Writing

OpRecord == [at : Steps, entry : Nat, used : BOOLEAN, conn : Nat, id : Nat, known : Nat]
PartialRecord == [at : {"none", "reserved", "copied"}, of : Nat, applied : Seq(Nat)]

Types ==
    /\ files \in 0 .. MaxFiles /\ path = files
    /\ wal \subseteq 1 .. files
    /\ lock \in [Files -> Openers \cup {None}]
    /\ op \in [Openers -> OpRecord]
    /\ partial \in [Openers -> PartialRecord]

Version(i) == Len(applied[i])

(* Every file has a version, also the one of a later application. *)
Versions ==
    /\ applied \in [Files -> Seq(Nat)]
    /\ \A i \in Files : applied[i] = UpTo(Version(i))

(* What is true of an opener at each of its steps. *)
Connected(o) ==
    op[o].at # "idle" =>
        /\ op[o].entry \in 0 .. files
        /\ op[o].used => op[o].entry # 0
        /\ op[o].at # "open" => Conn(o) \in 1 .. files /\ op[o].entry <= Conn(o)

Identified(o) ==
    op[o].at \notin {"idle", "open", "identify"} =>
        op[o].id \in 1 .. files /\ (op[o].used => Conn(o) = op[o].id)

Checked(o) ==
    op[o].at \notin {"idle", "open", "identify", "preflight"} => Version(Conn(o)) <= Newest

Locked(o) ==
    op[o].at \in Writing =>
        /\ lock[Conn(o)] = o
        /\ Version(Conn(o)) = op[o].known /\ op[o].known < Newest
        /\ op[o].at # "apply" => op[o].used

BackedUp(o) ==
    /\ op[o].at = "copy" => partial[o].of \in op[o].id .. files
    /\ op[o].at = "publish" => partial[o].of = Conn(o) /\ partial[o].applied = applied[Conn(o)]
    /\ op[o].at = "apply" /\ op[o].used => [of |-> Conn(o), applied |-> applied[Conn(o)]] \in backups

Current(o) == op[o].at = "ready" => Version(Conn(o)) = Newest

Stage(o) ==
    /\ Connected(o) /\ Identified(o) /\ Checked(o)
    /\ Locked(o) /\ BackedUp(o) /\ Current(o)

(* What is true of the files that openers leave behind. *)
Durable == \A i \in wal : Version(i) <= Newest

Whole ==
    \A b \in backups :
        /\ b.of \in 1 .. files
        /\ b.applied \in Seq(Nat) /\ b.applied = UpTo(Len(b.applied))
        /\ Len(b.applied) < Newest /\ Len(b.applied) <= Version(b.of)

IInv == Types /\ Versions /\ (\A o \in Openers : Stage(o)) /\ Durable /\ Whole

-------------------------------------------------------------------------------
(* Facts about versions. *)

LEMMA Bounds == Newest \in Nat /\ Newest > 0 /\ MaxFiles \in Nat /\ MaxFiles > 0 /\ None \notin Openers
BY MigrationsAssumption

LEMMA UpToIsSeq == ASSUME NEW n \in Nat PROVE UpTo(n) \in Seq(Nat) /\ Len(UpTo(n)) = n
<1>1. UpTo(n) \in [1 .. n -> Nat]
    BY DEF UpTo
<1>2. UpTo(n) \in Seq(Nat)
    BY <1>1, SeqDef
<1>3. DOMAIN UpTo(n) = 1 .. n
    BY <1>1
<1> QED
    BY <1>2, <1>3, LenProperties

(* A prefix of a version is an older version. *)
LEMMA OlderVersion ==
    ASSUME NEW m \in Nat, NEW n \in Nat, m <= n
    PROVE  SubSeq(UpTo(n), 1, m) = UpTo(m)
BY UpToIsSeq DEF UpTo

(* Applying what is pending brings a file to the newest version. *)
LEMMA Applies ==
    ASSUME NEW k \in Nat, k <= Newest
    PROVE  UpTo(k) \o [i \in 1 .. Newest - k |-> k + i] = UpTo(Newest)
<1> DEFINE rest == [i \in 1 .. Newest - k |-> k + i]
<1>0. Newest - k \in Nat
    BY Bounds
<1>1. rest \in [1 .. Newest - k -> Nat]
    OBVIOUS
<1>2. rest \in Seq(Nat) /\ Len(rest) = Newest - k
  <2>1. rest \in Seq(Nat)
      BY <1>0, <1>1, SeqDef
  <2>2. DOMAIN rest = 1 .. Newest - k
      OBVIOUS
  <2> QED
      BY <1>0, <2>1, <2>2, LenProperties
<1>3. UpTo(k) \in Seq(Nat) /\ Len(UpTo(k)) = k
    BY UpToIsSeq
<1>4. UpTo(Newest) \in Seq(Nat) /\ Len(UpTo(Newest)) = Newest
    BY Bounds, UpToIsSeq
<1>5. /\ UpTo(k) \o rest \in Seq(Nat)
      /\ Len(UpTo(k) \o rest) = Newest
      /\ \A i \in 1 .. Newest : (UpTo(k) \o rest)[i] = IF i <= k THEN UpTo(k)[i] ELSE rest[i - k]
  <2> HIDE DEF rest
  <2> QED
      BY Bounds, <1>2, <1>3, ConcatProperties
<1>6. \A i \in 1 .. Newest : (UpTo(k) \o rest)[i] = i
    BY Bounds, <1>5 DEF UpTo
<1>7. \A i \in 1 .. Newest : UpTo(Newest)[i] = i
    BY DEF UpTo
<1> HIDE DEF rest
<1>8. UpTo(k) \o rest = UpTo(Newest)
    BY <1>4, <1>5, <1>6, <1>7, SeqEqual
<1> QED
    BY <1>8 DEF rest
-------------------------------------------------------------------------------
(* The invariant. *)

LEMMA InitHolds == Init => IInv
<1> SUFFICES ASSUME Init PROVE IInv
    OBVIOUS
<1>1. Types
  <2>1. files \in 0 .. MaxFiles /\ path = files
      BY Bounds DEF Init
  <2>2. wal \subseteq 1 .. files /\ lock \in [Files -> Openers \cup {None}]
      BY DEF Init
  <2>3. op \in [Openers -> OpRecord]
      BY DEF Init, NoOp, Steps, OpRecord
  <2>4. partial \in [Openers -> PartialRecord]
      BY DEF Init, NoPartial, PartialRecord
  <2> QED
      BY <2>1, <2>2, <2>3, <2>4 DEF Types
<1>2. Versions
  <2>1. PICK n \in 0 .. Newest + 1 : applied = [i \in Files |-> IF i = path THEN UpTo(n) ELSE <<>>]
      BY DEF Init
  <2>2. n \in Nat /\ 0 \in Nat
      BY <2>1, Bounds
  <2>3. UpTo(n) \in Seq(Nat) /\ Len(UpTo(n)) = n
      BY <2>2, UpToIsSeq
  <2>4. <<>> \in Seq(Nat) /\ Len(<<>>) = 0 /\ UpTo(0) = <<>>
    <3>1. UpTo(0) \in Seq(Nat) /\ Len(UpTo(0)) = 0
        BY UpToIsSeq
    <3>2. <<>> \in Seq(Nat) /\ Len(<<>>) = 0
        OBVIOUS
    <3>3. UpTo(0) = <<>>
        BY <3>1, <3>2, SeqEqual
    <3> QED
        BY <3>2, <3>3
  <2>5. ASSUME NEW i \in Files PROVE applied[i] \in Seq(Nat) /\ applied[i] = UpTo(Version(i))
      BY <2>1, <2>3, <2>4 DEF Version
  <2>6. applied = [i \in Files |-> applied[i]]
      BY <2>1
  <2> QED
      BY <2>5, <2>6 DEF Versions
<1>3. ASSUME NEW o \in Openers PROVE Stage(o)
  <2>1. op[o].at = "idle"
      BY DEF Init, NoOp
  <2> QED
      BY <2>1 DEF Stage, Connected, Identified, Checked, Locked, BackedUp, Current, Writing
<1>4. Durable /\ Whole
    BY DEF Init, Durable, Whole
<1> QED
    BY <1>1, <1>2, <1>3, <1>4 DEF IInv

(* An opener that does not move: its file changes only while it has no lock on it, *)
(* and then to the newest version.                                                 *)
LEMMA StageKept ==
    ASSUME IInv, NEW p \in Openers,
           op'[p] = op[p], partial'[p] = partial[p],
           files' \in Nat, files <= files', backups \subseteq backups',
           op[p].at \in Writing => lock'[Conn(p)] = p,
           op[p].at \notin {"idle", "open"} =>
               \/ applied'[Conn(p)] = applied[Conn(p)]
               \/ Version(Conn(p))' = Newest /\ op[p].at \notin Writing
    PROVE  Stage(p)'
<1>0. Stage(p) /\ files \in Nat /\ Conn(p)' = Conn(p) /\ Conn(p) \in Nat /\ op[p].id \in Nat
    BY DEF IInv, Types, Conn, OpRecord
<1>1. Connected(p)'
    BY <1>0 DEF Stage, Connected
<1>2. Identified(p)'
    BY <1>0 DEF Stage, Identified
<1>3. op[p].at \notin {"idle", "open"} =>
          Version(Conn(p))' = Version(Conn(p)) \/ (Version(Conn(p))' = Newest /\ op[p].at \notin Writing)
    BY <1>0 DEF Version
<1>4. Checked(p)' /\ Current(p)' /\ Locked(p)'
    BY <1>0, <1>3, Bounds DEF Stage, Checked, Current, Locked, Writing
<1>5. BackedUp(p)'
  <2>1. op[p].at = "copy" => partial'[p].of \in op[p].id .. files'
    <3>1. op[p].at = "copy" => partial[p].of \in op[p].id .. files
        BY <1>0 DEF Stage, BackedUp
    <3> QED
        BY <1>0, <3>1
  <2>2. op[p].at \in {"publish", "apply"} => applied'[Conn(p)] = applied[Conn(p)]
      BY DEF Writing
  <2> QED
      BY <1>0, <2>1, <2>2 DEF Stage, BackedUp
<1> QED
    BY <1>1, <1>2, <1>4, <1>5 DEF Stage

(* A step of one opener that changes no file. *)
LEMMA QuietStep ==
    ASSUME IInv, NEW o \in Openers, UNCHANGED <<files, applied, wal, backups>>, Types', Stage(o)',
           \A p \in Openers \ {o} : /\ op'[p] = op[p] /\ partial'[p] = partial[p]
                                    /\ op[p].at \in Writing => lock'[Conn(p)] = p
    PROVE  IInv'
<1>1. Versions' /\ Durable' /\ Whole'
    BY DEF IInv, Versions, Durable, Whole, Version
<1>2. ASSUME NEW p \in Openers PROVE Stage(p)'
  <2>1. CASE p = o
      BY <2>1
  <2>2. CASE p # o
    <3>1. files' \in Nat /\ files <= files'
        BY Bounds DEF IInv, Types
    <3> QED
        BY <2>2, <3>1, StageKept
  <2> QED
      BY <2>1, <2>2
<1> QED
    BY <1>1, <1>2 DEF IInv

(* The lock of an opener that does not move is not taken from it. *)
LEMMA LeavesKeeps ==
    ASSUME IInv, NEW o \in Openers, Leaves(o), UNCHANGED <<path, files, applied, wal, backups>>,
           partial' = [partial EXCEPT ![o] = NoPartial]
    PROVE  IInv'
<1>1. Types'
  <2>1. op' \in [Openers -> OpRecord]
    <3>1. NoOp \in OpRecord
        BY DEF NoOp, Steps, OpRecord
    <3> QED
        BY <3>1 DEF IInv, Types, Leaves
  <2>2. partial' \in [Openers -> PartialRecord]
    <3>1. NoPartial \in PartialRecord
        BY DEF NoPartial, PartialRecord
    <3> QED
        BY <3>1 DEF IInv, Types
  <2>3. lock' \in [Files -> Openers \cup {None}]
      BY DEF IInv, Types, Leaves
  <2> QED
      BY <2>1, <2>2, <2>3 DEF IInv, Types
<1>2. Stage(o)'
  <2>1. op'[o].at = "idle"
      BY DEF IInv, Types, Leaves, NoOp, OpRecord
  <2> QED
      BY <2>1 DEF Stage, Connected, Identified, Checked, Locked, BackedUp, Current, Writing
<1>3. ASSUME NEW p \in Openers \ {o}
      PROVE  /\ op'[p] = op[p] /\ partial'[p] = partial[p]
             /\ op[p].at \in Writing => lock'[Conn(p)] = p
  <2>1. op'[p] = op[p] /\ partial'[p] = partial[p]
      BY DEF IInv, Types, Leaves
  <2>2. ASSUME op[p].at \in Writing PROVE lock'[Conn(p)] = p
    <3>1. lock[Conn(p)] = p /\ Conn(p) \in 1 .. files
        BY <2>2 DEF IInv, Stage, Locked, Connected, Writing
    <3>2. Conn(p) \in Files
        BY <3>1, Bounds DEF IInv, Types, Files
    <3> QED
        BY <3>1, <3>2 DEF Leaves
  <2> QED
      BY <2>1, <2>2
<1> QED
    BY <1>1, <1>2, <1>3, QuietStep
-------------------------------------------------------------------------------
(* The steps of an opener up to its transaction. *)

LEMMA InspectsKeeps == ASSUME IInv, NEW o \in Openers, Inspects(o) PROVE IInv'
<1>1. PICK used \in BOOLEAN :
          /\ op' = [op EXCEPT ![o] = [NoOp EXCEPT !.at = "open", !.entry = path, !.used = used]]
          /\ used => path # 0
    BY DEF Inspects
<1> DEFINE new == [NoOp EXCEPT !.at = "open", !.entry = path, !.used = used]
<1>2. /\ new \in OpRecord
      /\ new.at = "open" /\ new.entry = path /\ new.used = used
  <2>1. path \in Nat
      BY Bounds DEF IInv, Types
  <2>2. NoOp \in OpRecord
      BY DEF NoOp, OpRecord, Steps
  <2>3. [NoOp EXCEPT !.at = "open"] \in OpRecord /\ [NoOp EXCEPT !.at = "open"].at = "open"
      BY <2>2 DEF OpRecord, Steps
  <2>4. /\ [NoOp EXCEPT !.at = "open", !.entry = path] \in OpRecord
        /\ [NoOp EXCEPT !.at = "open", !.entry = path].at = "open"
        /\ [NoOp EXCEPT !.at = "open", !.entry = path].entry = path
      BY <2>1, <2>3 DEF OpRecord
  <2> QED
      BY <2>4 DEF OpRecord
<1> HIDE DEF new
<1>3. Types'
    BY <1>1, <1>2 DEF new, IInv, Types, Inspects
<1>4. op'[o] = new
    BY <1>1 DEF new, IInv, Types
<1>5. Stage(o)'
  <2>1. Connected(o)'
      BY <1>1, <1>2, <1>4, Bounds DEF Connected, Inspects, IInv, Types
  <2> QED
      BY <1>2, <1>4, <2>1 DEF Stage, Identified, Checked, Locked, BackedUp, Current, Writing
<1>6. \A p \in Openers \ {o} : /\ op'[p] = op[p] /\ partial'[p] = partial[p]
                               /\ op[p].at \in Writing => lock'[Conn(p)] = p
    BY <1>1 DEF IInv, Types, Inspects, Stage, Locked
<1> QED
    BY <1>3, <1>5, <1>6, QuietStep DEF Inspects

LEMMA OpensKeeps == ASSUME IInv, NEW o \in Openers, Opens(o) PROVE IInv'
<1>1. /\ files' \in 1 .. MaxFiles /\ files <= files' /\ path' = files'
      /\ files' = files \/ files' = files + 1
    BY Bounds DEF Opens, IInv, Types
<1>2. UNCHANGED <<applied, wal, lock, partial, backups>>
    BY DEF Opens
<1>3. /\ op' \in [Openers -> OpRecord]
      /\ op'[o].at = "identify" /\ Conn(o)' = path'
      /\ op'[o].entry = op[o].entry /\ op'[o].used = op[o].used
      /\ \A p \in Openers \ {o} : op'[p] = op[p]
  <2>1. op \in [Openers -> OpRecord] /\ path' \in Nat
      BY <1>1, Bounds DEF IInv, Types
  <2>2. op' = [op EXCEPT ![o].at = "identify", ![o].conn = path']
      BY DEF Opens
  <2> QED
      BY <2>1, <2>2 DEF OpRecord, Steps, Conn
<1>4. Types'
    BY <1>1, <1>2, <1>3, Bounds DEF IInv, Types
<1>5. Versions' /\ Durable' /\ Whole'
    BY <1>1, <1>2, Bounds DEF IInv, Types, Versions, Durable, Whole, Version
<1>6. Stage(o)'
  <2>1. op[o].entry \in 0 .. files /\ (op[o].used => op[o].entry # 0)
      BY DEF IInv, Stage, Connected, Opens, At
  <2>2. Connected(o)'
      BY <1>1, <1>3, <2>1, Bounds DEF Connected, IInv, Types
  <2> QED
      BY <1>3, <2>2 DEF Stage, Identified, Checked, Locked, BackedUp, Current, Writing
<1>7. ASSUME NEW p \in Openers, p # o PROVE Stage(p)'
  <2>1. op[p].at \in Writing => lock'[Conn(p)] = p
      BY <1>2 DEF IInv, Stage, Locked
  <2> QED
      BY <1>1, <1>2, <1>3, <1>7, <2>1, StageKept, Bounds
<1> QED
    BY <1>4, <1>5, <1>6, <1>7 DEF IInv

(* Steps that only move an opener on, with what it has learnt. *)
LEMMA MovesOn ==
    ASSUME IInv, NEW o \in Openers, UNCHANGED <<path, files, applied, lock, wal, backups>>,
           op' \in [Openers -> OpRecord],
           partial' \in [Openers -> PartialRecord],
           \A p \in Openers \ {o} : op'[p] = op[p] /\ partial'[p] = partial[p],
           Stage(o)'
    PROVE  IInv'
<1>1. Types'
    BY DEF IInv, Types
<1>2. \A p \in Openers \ {o} : op[p].at \in Writing => lock'[Conn(p)] = p
    BY DEF IInv, Stage, Locked
<1> QED
    BY <1>1, <1>2, QuietStep

LEMMA IdentifiesKeeps == ASSUME IInv, NEW o \in Openers, Identifies(o) PROVE IInv'
<1>1. /\ op' \in [Openers -> OpRecord]
      /\ op'[o].at = "preflight" /\ op'[o].id = path /\ Conn(o)' = Conn(o)
      /\ op'[o].entry = op[o].entry /\ op'[o].used = op[o].used
      /\ \A p \in Openers \ {o} : op'[p] = op[p]
  <2>1. op \in [Openers -> OpRecord] /\ path \in Nat
      BY Bounds DEF IInv, Types
  <2>2. op' = [op EXCEPT ![o].at = "preflight", ![o].id = path]
      BY DEF Identifies
  <2> QED
      BY <2>1, <2>2 DEF OpRecord, Steps, Conn
<1>2. /\ Conn(o) \in 1 .. files /\ op[o].entry <= Conn(o)
      /\ op[o].entry \in 0 .. files /\ (op[o].used => op[o].entry # 0)
    BY DEF IInv, Stage, Connected, Identifies, At
<1>3. op[o].used => Conn(o) = path
  <2> SUFFICES ASSUME op[o].used PROVE Conn(o) = path
      OBVIOUS
  <2>1. op[o].entry = path /\ path = files /\ files \in Nat
      BY <1>2, Bounds DEF Identifies, IInv, Types
  <2> QED
      BY <1>2, <2>1
<1>4. Stage(o)'
  <2>1. path \in 1 .. files /\ files' = files /\ files \in Nat
      BY <1>2, Bounds DEF IInv, Types, Identifies
  <2>2. Connected(o)' /\ Identified(o)'
      BY <1>1, <1>2, <1>3, <2>1 DEF Connected, Identified
  <2> QED
      BY <1>1, <2>2 DEF Stage, Checked, Locked, BackedUp, Current, Writing
<1>5. UNCHANGED <<path, files, applied, lock, wal, backups, partial>>
    BY DEF Identifies
<1> QED
    BY <1>1, <1>4, <1>5, MovesOn DEF IInv, Types

LEMMA PreflightsKeeps == ASSUME IInv, NEW o \in Openers, Preflights(o) PROVE IInv'
<1>1. /\ op' \in [Openers -> OpRecord]
      /\ op'[o].at = "configure" /\ op'[o].id = op[o].id /\ Conn(o)' = Conn(o)
      /\ op'[o].entry = op[o].entry /\ op'[o].used = op[o].used
      /\ \A p \in Openers \ {o} : op'[p] = op[p]
  <2>1. op \in [Openers -> OpRecord]
      BY DEF IInv, Types
  <2> QED
      BY <2>1 DEF Preflights, Goto, OpRecord, Steps, Conn
<1>2. UNCHANGED <<path, files, applied, lock, wal, backups, partial>>
    BY DEF Preflights
<1>3. Stage(o)'
  <2>1. Connected(o)' /\ Identified(o)'
      BY <1>1, <1>2 DEF IInv, Stage, Connected, Identified, Preflights, At
  <2>2. Checked(o)'
      BY <1>1, <1>2 DEF Checked, Preflights, KnownPrefix, Version
  <2> QED
      BY <1>1, <2>1, <2>2 DEF Stage, Locked, BackedUp, Current, Writing
<1> QED
    BY <1>1, <1>2, <1>3, MovesOn DEF IInv, Types

(* The version check has gone before: what is configured is a known version. *)
LEMMA ConfiguresKeeps == ASSUME IInv, NEW o \in Openers, Configures(o) PROVE IInv'
<1>1. /\ op' \in [Openers -> OpRecord]
      /\ op'[o].at = "begin" /\ op'[o].id = op[o].id /\ Conn(o)' = Conn(o)
      /\ op'[o].entry = op[o].entry /\ op'[o].used = op[o].used
      /\ \A p \in Openers \ {o} : op'[p] = op[p]
  <2>1. op \in [Openers -> OpRecord]
      BY DEF IInv, Types
  <2> QED
      BY <2>1 DEF Configures, Goto, OpRecord, Steps, Conn
<1>2. UNCHANGED <<path, files, applied, lock, backups, partial>> /\ wal' = wal \cup {Conn(o)}
    BY DEF Configures
<1>3. Stage(o) /\ op[o].at = "configure"
    BY DEF IInv, Configures, At
<1>4. Conn(o) \in 1 .. files /\ Version(Conn(o)) <= Newest
    BY <1>3 DEF Stage, Connected, Checked
<1>5. Stage(o)'
  <2>1. Connected(o)' /\ Identified(o)'
      BY <1>1, <1>2, <1>3 DEF Stage, Connected, Identified
  <2>2. Checked(o)'
      BY <1>1, <1>2, <1>4 DEF Checked, Version
  <2> QED
      BY <1>1, <2>1, <2>2 DEF Stage, Locked, BackedUp, Current, Writing
<1>6. Types'
    BY <1>1, <1>2, <1>4 DEF IInv, Types
<1>7. Versions' /\ Durable' /\ Whole'
    BY <1>2, <1>4 DEF IInv, Versions, Durable, Whole, Version
<1>8. ASSUME NEW p \in Openers, p # o PROVE Stage(p)'
  <2>1. op[p].at \in Writing => lock'[Conn(p)] = p
      BY <1>2 DEF IInv, Stage, Locked
  <2>2. files' \in Nat /\ files <= files'
      BY <1>2, Bounds DEF IInv, Types
  <2> QED
      BY <1>1, <1>2, <1>8, <2>1, <2>2, StageKept
<1> QED
    BY <1>5, <1>6, <1>7, <1>8 DEF IInv

(* The transaction begins on a file nobody else writes. *)
LEMMA BeginsKeeps == ASSUME IInv, NEW o \in Openers, Begins(o) PROVE IInv'
<1>1. UNCHANGED <<path, files, applied, wal, backups, partial>> /\ lock[Conn(o)] = None
    BY DEF Begins, LockFree
<1>2. Stage(o) /\ op[o].at = "begin"
    BY DEF IInv, Begins, At
<1>3. Conn(o) \in 1 .. files /\ Conn(o) \in Files /\ Version(Conn(o)) <= Newest
      /\ Version(Conn(o)) \in Nat
  <2>1. Conn(o) \in 1 .. files /\ Version(Conn(o)) <= Newest
      BY <1>2 DEF Stage, Connected, Checked
  <2>2. Conn(o) \in Files
      BY <2>1, Bounds DEF IInv, Types, Files
  <2> QED
      BY <2>1, <2>2 DEF IInv, Versions, Version
<1>4. /\ op' \in [Openers -> OpRecord]
      /\ op'[o].id = op[o].id /\ Conn(o)' = Conn(o)
      /\ op'[o].entry = op[o].entry /\ op'[o].used = op[o].used
      /\ \A p \in Openers \ {o} : op'[p] = op[p]
  <2>1. op \in [Openers -> OpRecord] /\ Version(Conn(o)) \in Nat
      BY <1>3 DEF IInv, Types
  <2>2. \/ op' = [op EXCEPT ![o].at = "ready"]
        \/ \E at \in {"reserve", "apply"} :
              op' = [op EXCEPT ![o].known = Version(Conn(o)), ![o].at = at]
      BY DEF Begins, Goto, Version
  <2>3. CASE op' = [op EXCEPT ![o].at = "ready"]
      BY <2>1, <2>3 DEF OpRecord, Steps, Conn
  <2>4. ASSUME NEW at \in {"reserve", "apply"},
               op' = [op EXCEPT ![o].known = Version(Conn(o)), ![o].at = at]
        PROVE  /\ op' \in [Openers -> OpRecord]
               /\ op'[o].id = op[o].id /\ Conn(o)' = Conn(o)
               /\ op'[o].entry = op[o].entry /\ op'[o].used = op[o].used
               /\ \A p \in Openers \ {o} : op'[p] = op[p]
      BY <2>1, <2>4 DEF OpRecord, Steps, Writing, Conn
  <2> QED
      BY <2>2, <2>3, <2>4
<1>5. \/ op'[o].at = "ready" /\ Version(Conn(o)) = Newest /\ lock' = lock
      \/ /\ op'[o].at = IF op[o].used THEN "reserve" ELSE "apply"
         /\ op'[o].known = Version(Conn(o)) /\ Version(Conn(o)) # Newest
         /\ lock' = [lock EXCEPT ![Conn(o)] = o]
  <2>1. op \in [Openers -> OpRecord]
      BY DEF IInv, Types
  <2>2. CASE Version(Conn(o)) = Newest
      BY <2>1, <2>2 DEF Begins, Goto, Version, OpRecord
  <2>3. CASE Version(Conn(o)) # Newest
    <3>1. /\ lock' = [lock EXCEPT ![Conn(o)] = o]
          /\ op' = [op EXCEPT ![o].known = Version(Conn(o)),
                              ![o].at = IF op[o].used THEN "reserve" ELSE "apply"]
        BY <2>3 DEF Begins, Version
    <3> QED
        BY <2>1, <2>3, <3>1 DEF OpRecord
  <2> QED
      BY <2>2, <2>3
<1>6. Types'
  <2>1. lock' \in [Files -> Openers \cup {None}]
      BY <1>5 DEF IInv, Types
  <2> QED
      BY <1>1, <1>4, <2>1 DEF IInv, Types
<1>7. Stage(o)'
  <2>1. Connected(o)' /\ Identified(o)'
      BY <1>1, <1>2, <1>4 DEF Stage, Connected, Identified
  <2>2. Checked(o)' /\ Version(Conn(o))' = Version(Conn(o))
      BY <1>1, <1>3, <1>4 DEF Checked, Version
  <2>3. CASE op'[o].at = "ready"
      BY <1>4, <1>5, <2>1, <2>2, <2>3 DEF Stage, Locked, BackedUp, Current, Writing
  <2>4. CASE op'[o].at # "ready"
    <3>1. lock'[Conn(o)] = o
        BY <1>3, <1>5, <2>4 DEF IInv, Types
    <3>2. Locked(o)'
        BY <1>3, <1>4, <1>5, <2>2, <2>4, <3>1, Bounds DEF Locked
    <3> QED
        BY <1>4, <1>5, <2>1, <2>2, <2>4, <3>2 DEF Stage, BackedUp, Current
  <2> QED
      BY <2>3, <2>4
<1>8. ASSUME NEW p \in Openers \ {o}, op[p].at \in Writing PROVE lock'[Conn(p)] = p
  <2>1. lock[Conn(p)] = p /\ Conn(p) # Conn(o)
      BY <1>1, <1>8, Bounds DEF IInv, Stage, Locked
  <2>2. Conn(p) \in Files /\ lock \in [Files -> Openers \cup {None}]
    <3>1. Conn(p) \in 1 .. files
        BY <1>8 DEF IInv, Stage, Connected, Writing
    <3> QED
        BY <3>1, Bounds DEF IInv, Types, Files
  <2> QED
      BY <1>5, <2>1, <2>2
<1> QED
    BY <1>1, <1>4, <1>6, <1>7, <1>8, QuietStep
-------------------------------------------------------------------------------
(* The steps inside the transaction. *)

LEMMA ReservesKeeps == ASSUME IInv, NEW o \in Openers, Reserves(o) PROVE IInv'
<1>0. op \in [Openers -> OpRecord] /\ partial \in [Openers -> PartialRecord]
    BY DEF IInv, Types
<1>1. /\ op' \in [Openers -> OpRecord]
      /\ op'[o] = [op[o] EXCEPT !.at = "source"]
      /\ \A p \in Openers \ {o} : op'[p] = op[p]
    BY <1>0 DEF Reserves, Goto, OpRecord, Steps, Writing
<1>2. /\ partial' \in [Openers -> PartialRecord]
      /\ \A p \in Openers \ {o} : partial'[p] = partial[p]
    BY <1>0 DEF Reserves, PartialRecord
<1>3. UNCHANGED <<path, files, applied, lock, wal, backups>>
    BY DEF Reserves
<1>4. /\ op[o].at = "reserve" /\ op'[o].at = "source" /\ Conn(o)' = Conn(o)
      /\ op'[o].entry = op[o].entry /\ op'[o].used = op[o].used
      /\ op'[o].id = op[o].id /\ op'[o].known = op[o].known
    BY <1>0, <1>1 DEF Reserves, At, OpRecord, Conn
<1>5. Stage(o)'
  <2>1. Stage(o)
      BY DEF IInv
  <2>2. Connected(o)' /\ Identified(o)' /\ Checked(o)' /\ Locked(o)'
      BY <1>3, <1>4, <2>1 DEF Stage, Connected, Identified, Checked, Locked, Version, Writing
  <2> QED
      BY <1>4, <2>2 DEF Stage, BackedUp, Current
<1> QED
    BY <1>1, <1>2, <1>3, <1>5, MovesOn

(* The source is a file that was at the path after the opener's own. *)
LEMMA OpensSourceKeeps == ASSUME IInv, NEW o \in Openers, OpensSource(o) PROVE IInv'
<1>0. op \in [Openers -> OpRecord] /\ partial \in [Openers -> PartialRecord]
      /\ path = files /\ files \in Nat
    BY Bounds DEF IInv, Types
<1>1. /\ op' \in [Openers -> OpRecord]
      /\ op'[o] = [op[o] EXCEPT !.at = "copy"]
      /\ \A p \in Openers \ {o} : op'[p] = op[p]
    BY <1>0 DEF OpensSource, Goto, OpRecord, Steps, Writing
<1>2. /\ partial' \in [Openers -> PartialRecord] /\ partial'[o].of = files
      /\ \A p \in Openers \ {o} : partial'[p] = partial[p]
    BY <1>0 DEF OpensSource, PartialRecord
<1>3. UNCHANGED <<path, files, applied, lock, wal, backups>>
    BY DEF OpensSource
<1>4. /\ op[o].at = "source" /\ op'[o].at = "copy" /\ Conn(o)' = Conn(o)
      /\ op'[o].entry = op[o].entry /\ op'[o].used = op[o].used
      /\ op'[o].id = op[o].id /\ op'[o].known = op[o].known
    BY <1>0, <1>1 DEF OpensSource, At, OpRecord, Conn
<1>5. Stage(o)'
  <2>1. Stage(o)
      BY DEF IInv
  <2>2. Connected(o)' /\ Identified(o)' /\ Checked(o)' /\ Locked(o)'
      BY <1>3, <1>4, <2>1 DEF Stage, Connected, Identified, Checked, Locked, Version, Writing
  <2>3. files \in op[o].id .. files
      BY <1>0, <1>4, <2>1 DEF Stage, Identified
  <2>4. BackedUp(o)'
      BY <1>2, <1>3, <1>4, <2>3 DEF BackedUp
  <2> QED
      BY <1>4, <2>2, <2>4 DEF Stage, Current
<1> QED
    BY <1>1, <1>2, <1>3, <1>5, MovesOn

(* That the path is what it was says that the source is the opener's own file. *)
LEMMA CopiesKeeps == ASSUME IInv, NEW o \in Openers, Copies(o) PROVE IInv'
<1>0. op \in [Openers -> OpRecord] /\ partial \in [Openers -> PartialRecord]
      /\ path = files /\ files \in Nat
    BY Bounds DEF IInv, Types
<1>1. /\ op' \in [Openers -> OpRecord]
      /\ op'[o] = [op[o] EXCEPT !.at = "publish"]
      /\ \A p \in Openers \ {o} : op'[p] = op[p]
    BY <1>0 DEF Copies, Goto, OpRecord, Steps, Writing
<1>2. UNCHANGED <<path, files, applied, lock, wal, backups>>
    BY DEF Copies
<1>3. /\ op[o].at = "copy" /\ op'[o].at = "publish" /\ Conn(o)' = Conn(o)
      /\ op'[o].entry = op[o].entry /\ op'[o].used = op[o].used
      /\ op'[o].id = op[o].id /\ op'[o].known = op[o].known
    BY <1>0, <1>1 DEF Copies, At, OpRecord, Conn
<1>4. Stage(o)
    BY DEF IInv
<1>5. partial[o].of = Conn(o) /\ Conn(o) \in 1 .. files /\ Conn(o) \in Files
  <2>1. partial[o].of \in op[o].id .. files /\ op[o].used /\ Conn(o) = op[o].id
        /\ Conn(o) \in 1 .. files
      BY <1>3, <1>4 DEF Stage, BackedUp, Locked, Identified, Connected, Writing
  <2>2. op[o].id = files
      BY <1>0 DEF Copies, Unmoved
  <2>3. Conn(o) \in Files
      BY <2>1, Bounds DEF IInv, Types, Files
  <2> QED
      BY <1>0, <2>1, <2>2, <2>3
<1>6. applied[Conn(o)] \in Seq(Nat)
    BY <1>5 DEF IInv, Versions
<1>7. partial' = [partial EXCEPT ![o].at = "copied", ![o].applied = applied[Conn(o)]]
    BY <1>5 DEF Copies
<1>8. /\ partial' \in [Openers -> PartialRecord]
      /\ partial'[o].of = Conn(o) /\ partial'[o].applied = applied[Conn(o)]
      /\ \A p \in Openers \ {o} : partial'[p] = partial[p]
    BY <1>0, <1>5, <1>6, <1>7 DEF PartialRecord
<1>9. Stage(o)'
  <2>1. Connected(o)' /\ Identified(o)' /\ Checked(o)' /\ Locked(o)'
      BY <1>2, <1>3, <1>4 DEF Stage, Connected, Identified, Checked, Locked, Version, Writing
  <2>2. BackedUp(o)'
      BY <1>2, <1>3, <1>8 DEF BackedUp
  <2> QED
      BY <1>3, <2>1, <2>2 DEF Stage, Current
<1> QED
    BY <1>1, <1>2, <1>8, <1>9, MovesOn

(* What is published is the file as the transaction has found it. *)
LEMMA PublishesKeeps == ASSUME IInv, NEW o \in Openers, Publishes(o) PROVE IInv'
<1>0. op \in [Openers -> OpRecord] /\ partial \in [Openers -> PartialRecord]
    BY DEF IInv, Types
<1>1. Stage(o) /\ op[o].at = "publish"
    BY DEF IInv, Publishes, At
<1> DEFINE new == [of |-> Conn(o), applied |-> applied[Conn(o)]]
<1>2. /\ Conn(o) \in 1 .. files /\ Conn(o) \in Files
      /\ Version(Conn(o)) < Newest /\ lock[Conn(o)] = o
      /\ partial[o].of = Conn(o) /\ partial[o].applied = applied[Conn(o)]
  <2>1. /\ Conn(o) \in 1 .. files /\ Version(Conn(o)) < Newest /\ lock[Conn(o)] = o
        /\ partial[o].of = Conn(o) /\ partial[o].applied = applied[Conn(o)]
      BY <1>1 DEF Stage, Connected, Locked, BackedUp, Writing
  <2>2. Conn(o) \in Files
      BY <2>1, Bounds DEF IInv, Types, Files
  <2> QED
      BY <2>1, <2>2
<1>3. /\ applied[Conn(o)] \in Seq(Nat) /\ applied[Conn(o)] = UpTo(Len(applied[Conn(o)]))
      /\ Version(Conn(o)) \in Nat
    BY <1>2 DEF IInv, Versions, Version
<1>4. backups' = backups \cup {new}
    BY <1>2 DEF Publishes
<1>5. UNCHANGED <<path, files, applied, wal>> /\ partial' = [partial EXCEPT ![o] = NoPartial]
    BY DEF Publishes
<1>6. Whole'
  <2>1. \A b \in backups' : b \in backups \/ b = new
      BY <1>4
  <2>2. Len(new.applied) = Version(Conn(o)) /\ new.of = Conn(o) /\ new.applied = applied[Conn(o)]
      BY DEF Version
  <2> HIDE DEF new
  <2> QED
      BY <1>2, <1>3, <1>5, <2>1, <2>2 DEF IInv, Whole, Version
<1>7. Versions' /\ Durable'
    BY <1>5 DEF IInv, Versions, Durable, Version
<1>8. /\ partial' \in [Openers -> PartialRecord]
      /\ \A p \in Openers \ {o} : partial'[p] = partial[p]
    BY <1>0, <1>5 DEF NoPartial, PartialRecord
<1>9. CASE Goto(o, "apply") /\ UNCHANGED lock
  <2>1. /\ op' \in [Openers -> OpRecord]
        /\ op'[o] = [op[o] EXCEPT !.at = "apply"]
        /\ \A p \in Openers \ {o} : op'[p] = op[p]
      BY <1>0, <1>9 DEF Goto, OpRecord, Steps, Writing
  <2>2. /\ op'[o].at = "apply" /\ Conn(o)' = Conn(o)
        /\ op'[o].entry = op[o].entry /\ op'[o].used = op[o].used
        /\ op'[o].id = op[o].id /\ op'[o].known = op[o].known
      BY <1>0, <2>1 DEF OpRecord, Conn
  <2>3. Types'
      BY <1>5, <1>8, <1>9, <2>1 DEF IInv, Types
  <2>4. Stage(o)'
    <3>1. Connected(o)' /\ Identified(o)' /\ Checked(o)' /\ Locked(o)'
        BY <1>1, <1>5, <1>9, <2>2 DEF Stage, Connected, Identified, Checked, Locked, Version, Writing
    <3>2. BackedUp(o)'
        BY <1>4, <1>5, <2>2 DEF BackedUp
    <3> QED
        BY <2>2, <3>1, <3>2 DEF Stage, Current
  <2>5. ASSUME NEW p \in Openers, p # o PROVE Stage(p)'
    <3>1. op[p].at \in Writing => lock'[Conn(p)] = p
        BY <1>9 DEF IInv, Stage, Locked
    <3>2. files' \in Nat /\ files <= files'
        BY <1>5, Bounds DEF IInv, Types
    <3> QED
        BY <1>4, <1>5, <1>8, <2>1, <2>5, <3>1, <3>2, StageKept
  <2> QED
      BY <1>6, <1>7, <2>3, <2>4, <2>5 DEF IInv
<1>10. CASE Leaves(o)
  <2>1. op' = [op EXCEPT ![o] = NoOp] /\ NoOp \in OpRecord /\ NoOp.at = "idle"
      BY <1>10 DEF Leaves, NoOp, OpRecord, Steps
  <2>2. /\ op' \in [Openers -> OpRecord] /\ op'[o].at = "idle"
        /\ \A p \in Openers \ {o} : op'[p] = op[p]
      BY <1>0, <2>1
  <2>3. lock' \in [Files -> Openers \cup {None}]
      BY <1>10 DEF IInv, Types, Leaves
  <2>4. Types'
      BY <1>5, <1>8, <2>2, <2>3 DEF IInv, Types
  <2>5. Stage(o)'
      BY <2>2 DEF Stage, Connected, Identified, Checked, Locked, BackedUp, Current, Writing
  <2>6. ASSUME NEW p \in Openers, p # o PROVE Stage(p)'
    <3>1. op[p].at \in Writing => lock[Conn(p)] = p /\ Conn(p) \in Files
        BY Bounds DEF IInv, Types, Stage, Locked, Connected, Writing, Files
    <3>2. op[p].at \in Writing => lock'[Conn(p)] = p
        BY <1>10, <2>6, <3>1 DEF Leaves
    <3>3. files' \in Nat /\ files <= files'
        BY <1>5, Bounds DEF IInv, Types
    <3> QED
        BY <1>4, <1>5, <1>8, <2>2, <2>6, <3>2, <3>3, StageKept
  <2> QED
      BY <1>6, <1>7, <2>4, <2>5, <2>6 DEF IInv
<1> QED
    BY <1>9, <1>10 DEF Publishes

(* The commit changes the one file the opener has locked, to the newest version. *)
LEMMA CommitsKeeps == ASSUME IInv, NEW o \in Openers, Commits(o) PROVE IInv'
<1>0. op \in [Openers -> OpRecord] /\ files \in Nat /\ applied \in [Files -> Seq(Nat)]
    BY Bounds DEF IInv, Types, Versions
<1>1. Stage(o) /\ op[o].at = "apply"
    BY DEF IInv, Commits, At
<1>2. /\ Conn(o) \in 1 .. files /\ Conn(o) \in Files /\ lock[Conn(o)] = o
      /\ Version(Conn(o)) = op[o].known /\ op[o].known < Newest /\ op[o].known \in Nat
  <2>1. /\ Conn(o) \in 1 .. files /\ lock[Conn(o)] = o
        /\ Version(Conn(o)) = op[o].known /\ op[o].known < Newest
      BY <1>1 DEF Stage, Connected, Locked, Writing
  <2>2. Conn(o) \in Files /\ op[o].known \in Nat
      BY <1>0, <2>1, Bounds DEF IInv, Types, Files, OpRecord
  <2> QED
      BY <2>1, <2>2
<1>3. applied' = [applied EXCEPT ![Conn(o)] = UpTo(Newest)]
  <2>1. applied[Conn(o)] = UpTo(op[o].known)
      BY <1>2 DEF IInv, Versions
  <2>2. applied[Conn(o)] \o [i \in 1 .. Newest - op[o].known |-> op[o].known + i] = UpTo(Newest)
    <3>1. op[o].known \in Nat /\ op[o].known <= Newest
        BY <1>2, Bounds
    <3>2. UpTo(op[o].known) \o [i \in 1 .. Newest - op[o].known |-> op[o].known + i] = UpTo(Newest)
        BY <3>1, Applies, Zenon
    <3> QED
        BY <2>1, <3>2, Zenon
  <2> QED
      BY <2>2 DEF Commits
<1>4. /\ UpTo(Newest) \in Seq(Nat) /\ Len(UpTo(Newest)) = Newest
    BY Bounds, UpToIsSeq
<1>5. /\ applied' \in [Files -> Seq(Nat)]
      /\ applied'[Conn(o)] = UpTo(Newest)
      /\ \A i \in Files : i # Conn(o) => applied'[i] = applied[i]
    BY <1>0, <1>2, <1>3, <1>4
<1>6. UNCHANGED <<path, files, wal, partial, backups>> /\ lock' = [lock EXCEPT ![Conn(o)] = None]
    BY DEF Commits
<1>7. /\ op' \in [Openers -> OpRecord]
      /\ op'[o] = [op[o] EXCEPT !.at = "ready"]
      /\ \A p \in Openers \ {o} : op'[p] = op[p]
    BY <1>0 DEF Commits, Goto, OpRecord, Steps
<1>8. /\ op'[o].at = "ready" /\ Conn(o)' = Conn(o)
      /\ op'[o].entry = op[o].entry /\ op'[o].used = op[o].used /\ op'[o].id = op[o].id
    BY <1>0, <1>7 DEF OpRecord, Conn
<1>9. Types'
  <2>1. lock' \in [Files -> Openers \cup {None}]
      BY <1>6 DEF IInv, Types
  <2> QED
      BY <1>6, <1>7, <2>1 DEF IInv, Types
<1>10. \A i \in Files : /\ Version(i) \in Nat /\ Version(i)' \in Nat
                        /\ i # Conn(o) => Version(i)' = Version(i)
                        /\ i = Conn(o) => Version(i)' = Newest
    BY <1>0, <1>2, <1>4, <1>5 DEF Version
<1>11. Versions'
  <2>1. ASSUME NEW i \in Files PROVE applied'[i] = UpTo(Len(applied'[i]))
    <3>1. CASE i = Conn(o)
        BY <1>4, <1>5, <3>1
    <3>2. CASE i # Conn(o)
        BY <1>5, <3>2 DEF IInv, Versions, Version
    <3> QED
        BY <3>1, <3>2
  <2> QED
      BY <1>5, <2>1 DEF Versions, Version
<1>12. Durable'
  <2>1. wal \subseteq Files
      BY Bounds DEF IInv, Types, Files
  <2> QED
      BY <1>6, <1>10, <2>1, Bounds DEF IInv, Durable
<1>13. Whole'
  <2>1. ASSUME NEW b \in backups PROVE b.of \in Files /\ Len(b.applied) <= Version(b.of)'
    <3>1. b.of \in Files /\ Len(b.applied) <= Version(b.of) /\ Len(b.applied) < Newest
        BY Bounds DEF IInv, Types, Whole, Files
    <3> QED
        BY <1>10, <3>1
  <2> QED
      BY <1>6, <2>1 DEF IInv, Whole
<1>14. Stage(o)'
  <2>1. Connected(o)' /\ Identified(o)'
      BY <1>1, <1>6, <1>8 DEF Stage, Connected, Identified
  <2>2. Version(Conn(o))' = Newest
      BY <1>4, <1>5, <1>8 DEF Version
  <2> QED
      BY <1>8, <2>1, <2>2, Bounds DEF Stage, Checked, Locked, BackedUp, Current, Writing
<1>15. ASSUME NEW p \in Openers, p # o PROVE Stage(p)'
  <2>1. op[p].at \in Writing => Conn(p) # Conn(o) /\ lock'[Conn(p)] = p
    <3>1. op[p].at \in Writing => lock[Conn(p)] = p /\ Conn(p) \in Files
        BY Bounds DEF IInv, Types, Stage, Locked, Connected, Writing, Files
    <3> QED
        BY <1>2, <1>6, <1>15, <3>1 DEF IInv, Types
  <2>2. op[p].at \notin {"idle", "open"} =>
            \/ applied'[Conn(p)] = applied[Conn(p)]
            \/ Version(Conn(p))' = Newest /\ op[p].at \notin Writing
    <3>1. op[p].at \notin {"idle", "open"} => Conn(p) \in Files
      <4>1. op[p].at \notin {"idle", "open"} => Conn(p) \in 1 .. files
          BY DEF IInv, Stage, Connected
      <4> QED
          BY <4>1, Bounds DEF IInv, Types, Files
    <3>2. Conn(p)' = Conn(p)
        BY <1>7, <1>15 DEF Conn
    <3>3. Conn(p) = Conn(o) => Version(Conn(p))' = Newest
        BY <1>4, <1>5, <3>2 DEF Version
    <3> QED
        BY <1>5, <2>1, <3>1, <3>3
  <2>3. op'[p] = op[p] /\ partial'[p] = partial[p] /\ files' \in Nat /\ files <= files'
        /\ backups \subseteq backups'
      BY <1>0, <1>6, <1>7, <1>15
  <2> QED
      BY <2>1, <2>2, <2>3, StageKept
<1> QED
    BY <1>9, <1>11, <1>12, <1>13, <1>14, <1>15 DEF IInv

(* Another database at the path is a file no opener is connected to. *)
LEMMA ReplacedKeeps == ASSUME IInv, Replaced PROVE IInv'
<1>1. /\ files \in Nat /\ files' = files + 1 /\ path' = files' /\ files' \in 1 .. MaxFiles
      /\ UNCHANGED <<wal, lock, partial, backups, op>>
    BY Bounds DEF Replaced, IInv, Types
<1>2. PICK n \in 0 .. Newest + 1 : applied' = [applied EXCEPT ![files + 1] = UpTo(n)]
    BY DEF Replaced
<1>3. n \in Nat /\ UpTo(n) \in Seq(Nat) /\ Len(UpTo(n)) = n
    BY <1>2, Bounds, UpToIsSeq
<1>4. applied \in [Files -> Seq(Nat)] /\ files + 1 \in Files
    BY <1>1, Bounds DEF IInv, Versions, Files
<1>5. /\ applied' \in [Files -> Seq(Nat)] /\ applied'[files + 1] = UpTo(n)
      /\ \A i \in 1 .. files : applied'[i] = applied[i]
      /\ \A i \in Files : i # files + 1 => applied'[i] = applied[i]
    BY <1>1, <1>2, <1>3, <1>4
<1>6. Types'
    BY <1>1 DEF IInv, Types
<1>7. Versions'
  <2>1. ASSUME NEW i \in Files PROVE applied'[i] = UpTo(Len(applied'[i]))
      BY <1>3, <1>5 DEF IInv, Versions, Version
  <2> QED
      BY <1>5, <2>1 DEF Versions, Version
<1>8. Durable'
    BY <1>1, <1>5 DEF IInv, Types, Durable, Version
<1>9. Whole'
    BY <1>1, <1>5 DEF IInv, Whole, Version
<1>10. ASSUME NEW p \in Openers PROVE Stage(p)'
  <2>1. op[p].at \in Writing => lock'[Conn(p)] = p
      BY <1>1 DEF IInv, Stage, Locked
  <2>2. op[p].at \notin {"idle", "open"} => applied'[Conn(p)] = applied[Conn(p)]
      BY <1>5 DEF IInv, Stage, Connected
  <2> QED
      BY <1>1, <2>1, <2>2, StageKept
<1> QED
    BY <1>6, <1>7, <1>8, <1>9, <1>10 DEF IInv

-------------------------------------------------------------------------------
LEMMA StepHolds == IInv /\ [Next]_vars => IInv'
<1> SUFFICES ASSUME IInv, [Next]_vars PROVE IInv'
    OBVIOUS
<1>1. ASSUME NEW o \in Openers, Fails(o) \/ Crash(o) PROVE IInv'
    BY <1>1, LeavesKeeps DEF Fails, Crash
<1>2. CASE UNCHANGED vars
    BY <1>2 DEF vars, IInv, Types, Versions, Stage, Connected, Identified, Checked, Locked,
              BackedUp, Current, Durable, Whole, Version, Conn
<1> QED
    BY <1>1, <1>2, InspectsKeeps, OpensKeeps, IdentifiesKeeps, PreflightsKeeps, ConfiguresKeeps,
       BeginsKeeps, ReservesKeeps, OpensSourceKeeps, CopiesKeeps, PublishesKeeps, CommitsKeeps,
       ReplacedKeeps DEF Next

LEMMA Invariance == Spec => []IInv
BY InitHolds, StepHolds, PTL DEF Spec

-------------------------------------------------------------------------------
(* Theorems *)

(* ReadyIsCurrent: a start that succeeded has every known migration, once and in *)
(* order, whoever else was opening, failing or ending at the time.               *)
THEOREM ReadyCurrent == Spec => []ReadyIsCurrent
<1>1. IInv => ReadyIsCurrent
  <2> SUFFICES ASSUME IInv, NEW o \in Openers, At(o, "ready") PROVE applied[Conn(o)] = UpTo(Newest)
      BY DEF ReadyIsCurrent
  <2>1. Conn(o) \in 1 .. files /\ Version(Conn(o)) = Newest
      BY DEF IInv, Stage, Connected, Current, At
  <2>2. Conn(o) \in Files
      BY <2>1, Bounds DEF IInv, Types, Files
  <2> QED
      BY <2>1, <2>2 DEF IInv, Versions
<1> QED
    BY <1>1, Invariance, PTL

(* NewerIsUntouched: a database of a later version of the application is not even *)
(* switched to write-ahead logging.                                               *)
THEOREM NewerUntouched == Spec => []NewerIsUntouched
<1>1. IInv => NewerIsUntouched
  <2> SUFFICES ASSUME IInv, NEW i \in Files, Len(applied[i]) > Newest, i \in wal PROVE FALSE
      BY DEF NewerIsUntouched
  <2>1. Len(applied[i]) \in Nat /\ Len(applied[i]) <= Newest
      BY DEF IInv, Versions, Durable, Version
  <2> QED
      BY <2>1, Bounds
<1> QED
    BY <1>1, Invariance, PTL

(* BackupsAreWhole: a published backup is a whole earlier version of its file, also *)
(* after a process has ended between any two of the steps that make it.             *)
THEOREM BackupsWhole == Spec => []BackupsAreWhole
<1>1. IInv => BackupsAreWhole
  <2> SUFFICES ASSUME IInv, NEW b \in backups
               PROVE  /\ b.of # 0 /\ Len(b.applied) < Newest
                      /\ b.applied = SubSeq(applied[b.of], 1, Len(b.applied))
      BY DEF BackupsAreWhole
  <2>1. /\ b.of \in 1 .. files /\ Len(b.applied) \in Nat /\ b.applied = UpTo(Len(b.applied))
        /\ Len(b.applied) < Newest /\ Len(b.applied) <= Version(b.of)
      BY DEF IInv, Whole
  <2>2. b.of \in Files
      BY <2>1, Bounds DEF IInv, Types, Files
  <2>3. applied[b.of] = UpTo(Version(b.of)) /\ Version(b.of) \in Nat
      BY <2>2 DEF IInv, Versions, Version
  <2>4. SubSeq(UpTo(Version(b.of)), 1, Len(b.applied)) = UpTo(Len(b.applied))
      BY <2>1, <2>3, OlderVersion
  <2> QED
      BY <2>1, <2>3, <2>4
<1> QED
    BY <1>1, Invariance, PTL

(* MigratedIsBackedUp: who commits to a file that was there has its backup. *)
THEOREM MigratedBackedUp == Spec => MigratedIsBackedUp
<1>1. IInv /\ [Next]_vars =>
        [\A o \in Openers :
            At(o, "apply") /\ op'[o].at = "ready" /\ op[o].used =>
                [of |-> Conn(o), applied |-> applied[Conn(o)]] \in backups]_vars
    BY DEF IInv, Stage, BackedUp, At
<1> QED
    BY <1>1, Invariance, PTL DEF Spec, MigratedIsBackedUp
===============================================================================
