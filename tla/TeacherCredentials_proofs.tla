---------------------- MODULE TeacherCredentials_proofs ----------------------
(***************************************************************************)
(* For any places, services and runs: a secret stays with its teacher, but *)
(* for the references that a null carried over.                            *)
(***************************************************************************)
EXTENDS TeacherCredentials, TLAPS

(* What may be stored with a teacher.                                      *)
Fits(where, service) == Given(where, service) \cup {Mask}

-----------------------------------------------------------------------------
(* What is accepted for a teacher is a secret, and what clients send is a  *)
(* configuration but for the masks.                                        *)
LEMMA GivenIsSecret ==
  ASSUME NEW where \in Places \cup {NoPlace}, NEW service \in Services \cup {NoService}
  PROVE  Given(where, service) \subseteq Secret
BY CredentialAssumption DEF Given, Named, Secret

LEMMA SubmittedIsConfig ==
  ASSUME NEW c \in Submitted
  PROVE  /\ c = [where |-> c.where, service |-> c.service, ref |-> c.ref, extra |-> c.extra]
         /\ c.where \in Places \cup {NoPlace}
         /\ c.service \in Services \cup {NoService}
         /\ c.ref \in Fits(c.where, c.service) /\ c.extra \in Fits(c.where, c.service)
<1>1. PICK t \in Chosen :
          c \in [where : {t[1]}, service : {t[2]}, ref : Given(t[1], t[2]) \cup {Mask},
                 extra : Given(t[1], t[2]) \cup {Mask}]
  BY DEF Submitted
<1>2. t[1] \in Places \cup {NoPlace} /\ t[2] \in Services \cup {NoService}
  BY DEF Chosen
<1> QED
  BY <1>1, <1>2 DEF Fits

(* What clients send when they create a project or a run.                  *)
LEMMA SubmittedFits ==
  ASSUME NEW c \in Submitted
  PROVE  c \in Config({Mask}) /\ OwnBut(c, FALSE)
BY SubmittedIsConfig, GivenIsSecret DEF Config, OwnBut, Fits

(* What an update stores, given the row it read: no mask but the row's.    *)
LEMMA UpdateStores ==
  ASSUME NEW old \in Config({Mask}), OwnBut(old, FALSE), NEW new \in Submitted,
         Mask \in Secrets(new) => SameConnection(old, new)
  PROVE  /\ Unmasked(new, old) \in Config({Mask}) /\ OwnBut(Unmasked(new, old), FALSE)
         /\ Unmasked(new, old).ref = Mask => old.ref = Mask
         /\ Unmasked(new, old).extra = Mask => old.extra = Mask
<1> DEFINE F == Fits(new.where, new.service)
<1>1. /\ new.where \in Places \cup {NoPlace} /\ new.service \in Services \cup {NoService}
      /\ new.ref \in F /\ new.extra \in F /\ F \subseteq Secret \cup {Mask}
  BY SubmittedIsConfig, GivenIsSecret DEF Fits
<1>2. Mask \in Secrets(new) => old.ref \in F /\ old.extra \in F
  BY DEF SameConnection, OwnBut, Fits
<1>3. /\ Unmask(new.ref, old.ref) \in F /\ Unmask(new.extra, old.extra) \in F
      /\ Unmask(new.ref, old.ref) = Mask => old.ref = Mask
      /\ Unmask(new.extra, old.extra) = Mask => old.extra = Mask
  BY <1>1, <1>2 DEF Unmask, Secrets
<1> QED
  BY <1>1, <1>3 DEF Unmasked, Config, OwnBut, Fits

-----------------------------------------------------------------------------
(* Where a patch moves a teacher is a place or a service.                  *)
LEMMA MoveIsTyped ==
  ASSUME NEW old \in Config({Mask}), NEW move \in Move
  PROVE  Where(old, move) \in Places \cup {NoPlace} /\ Service(old, move) \in Services \cup {NoService}
BY CredentialAssumption DEF Config, Move, Where, Service, Merged

(* One secret of a clone: F is what fits the teacher it moves to.          *)
LEMMA RetainKeeps ==
  ASSUME NEW F, NEW value \in F \cup {Absent}, NEW old, NEW same \in BOOLEAN,
         Empty \in F, same => old \in F,
         ~same => Merged(value, old) # Mask
  PROVE  Retain(value, old, same) \in F
<1>1. CASE value = Absent
  BY <1>1 DEF Retain, Merged
<1>2. CASE value # Absent
  BY <1>2 DEF Retain, Merged
<1> QED
  BY <1>1, <1>2

LEMMA EmptyFits ==
  ASSUME NEW where, NEW service
  PROVE  Empty \in Fits(where, service)
BY DEF Given, Fits

(* What a clone stores, given its source, and whether the reference of     *)
(* that may be of another teacher.                                         *)
LEMMA CloneStores ==
  ASSUME NEW r \in Runs, NEW old \in Config({Mask}), teacher[r] = old,
         OwnBut(old, r \in nulled), NEW move \in Move,
         NEW ref \in Entered(old, move), NEW extra \in Entered(old, move),
         ~Refused(old, move, ref, extra)
  PROVE  /\ Cloned(old, move, ref, extra) \in Config({Mask})
         /\ OwnBut(Cloned(old, move, ref, extra), CarriedOver(r, move, ref))
<1> DEFINE c == Cloned(old, move, ref, extra)
           F == Fits(Where(old, move), Service(old, move))
           same == Same(old, move)
<1>1. /\ c.where = Where(old, move) /\ c.service = Service(old, move)
      /\ c.ref = Retain(NullRef(ref, old), old.ref, same)
      /\ c.extra = Retain(NullExtra(extra), old.extra, same)
      /\ c = [where |-> c.where, service |-> c.service, ref |-> c.ref, extra |-> c.extra]
  BY DEF Cloned
<1>2. /\ c.where \in Places \cup {NoPlace} /\ c.service \in Services \cup {NoService}
      /\ F \subseteq Secret \cup {Mask} /\ Empty \in F
  BY <1>1, MoveIsTyped, GivenIsSecret, EmptyFits DEF Fits
<1>3. /\ ref \in F \cup {Absent, Null} /\ extra \in F \cup {Absent, Null}
      /\ old.ref \in Secret \cup {Mask} /\ old.extra \in Secret \cup {Mask} /\ same \in BOOLEAN
  BY DEF Entered, Config, Same, Fits
<1>4. ~same => /\ Merged(NullRef(ref, old), old.ref) # Mask
               /\ Merged(NullExtra(extra), old.extra) # Mask
  BY DEF Refused
<1>5. same => old.extra \in F /\ (old.ref \in F \/ r \in nulled)
  BY DEF Same, OwnBut, Fits
<1>6. c.extra \in F
  <2>1. NullExtra(extra) \in F \cup {Absent}
    BY <1>2, <1>3 DEF NullExtra
  <2> QED
    BY <1>1, <1>2, <1>3, <1>4, <1>5, <2>1, RetainKeeps
<1>7. c.ref \in Secret \cup {Mask}
  BY <1>1, <1>2, <1>3 DEF Retain, Merged, NullRef, Secret
<1>8. c.ref \in F \/ CarriedOver(r, move, ref)
  <2> SUFFICES ASSUME ~CarriedOver(r, move, ref)
               PROVE  c.ref \in F
    OBVIOUS
  <2>1. /\ ref = Null => same /\ r \notin nulled
        /\ ref \in {Mask, Absent} /\ same => r \notin nulled
    BY DEF CarriedOver
  <2>2. CASE ref = Null
    <3>1. c.ref = old.ref
      BY <1>1, <2>1, <2>2 DEF Retain, Merged, NullRef
    <3> QED
      BY <1>5, <2>1, <2>2, <3>1
  <2>3. CASE ref # Null /\ ref \in {Mask, Absent} /\ same
    <3>1. NullRef(ref, old) = ref /\ old.ref \in F
      BY <1>5, <2>1, <2>3 DEF NullRef
    <3>2. c.ref = old.ref
      BY <1>1, <2>3, <3>1 DEF Retain, Merged
    <3> QED
      BY <3>1, <3>2
  <2>4. CASE ref # Null /\ ~(ref \in {Mask, Absent} /\ same)
    BY <1>1, <1>2, <1>3, <1>4, <2>4 DEF NullRef, Retain, Merged
  <2> QED
    BY <2>2, <2>3, <2>4
<1> QED
  BY <1>1, <1>2, <1>6, <1>7, <1>8 DEF Config, OwnBut, Fits

(* Resolve keeps both, and a service has its own reference.                *)
LEMMA ResolveStores ==
  ASSUME NEW c \in Config({Mask}), centre \in [Services -> Places], NEW excused \in BOOLEAN,
         OwnBut(c, excused)
  PROVE  /\ Resolved(c) \in Config({Mask})
         /\ Resolved(c).service = c.service
         /\ OwnBut(Resolved(c), excused /\ c.service = NoService)
<1>1. CASE c.service = NoService
  BY <1>1 DEF Resolved
<1>2. CASE c.service # NoService
  <2>1. c.service \in Services /\ c.extra \in Secret \cup {Mask}
    BY <1>2 DEF Config
  <2>2. Resolved(c) = [where |-> centre[c.service], service |-> c.service, ref |-> c.service,
                       extra |-> c.extra]
    BY <1>2 DEF Resolved, Config
  <2>3. c.extra \in {Empty, c.service, Mask}
    BY <1>2 DEF OwnBut, Given, Named
  <2>4. Given(centre[c.service], c.service) = {Empty, c.service}
    BY <2>1, CredentialAssumption DEF Given, Named
  <2> QED
    BY <2>1, <2>2, <2>3, <2>4 DEF Config, OwnBut, Secret
<1> QED
  BY <1>1, <1>2

-----------------------------------------------------------------------------
(* The types, and whose the secrets are.                                   *)
CredentialInv == CredentialTypeOK /\ SecretsStayUnlessNulled

LEMMA CredentialInitially == CredentialInit => CredentialInv
<1> SUFFICES ASSUME CredentialInit
             PROVE  CredentialInv
  OBVIOUS
<1>1. project \in Config({Mask}) /\ OwnBut(project, FALSE)
  BY SubmittedFits DEF CredentialInit
<1>2. /\ update = Absent /\ create = Absent /\ teacher \in [Runs -> {Absent}]
      /\ centre \in [Services -> Places] /\ nulling = FALSE /\ nulled = {}
  BY DEF CredentialInit
<1> QED
  BY <1>1, <1>2 DEF CredentialInv, CredentialTypeOK, SecretsStayUnlessNulled

LEMMA CredentialStep == CredentialInv /\ [CredentialNext]_credentialVars => CredentialInv'
<1> SUFFICES ASSUME CredentialInv, [CredentialNext]_credentialVars
             PROVE  CredentialInv'
  OBVIOUS
<1> USE DEF CredentialInv, CredentialTypeOK, SecretsStayUnlessNulled
<1>1. ASSUME NEW new \in Submitted, BeginUpdate(new)
      PROVE  CredentialInv'
  <2>1. /\ update' \in Config({Mask}) /\ OwnBut(update', FALSE)
        /\ update'.ref = Mask => project.ref = Mask
        /\ update'.extra = Mask => project.extra = Mask
    BY <1>1, UpdateStores DEF BeginUpdate
  <2> QED
    BY <1>1, <2>1 DEF BeginUpdate, OwnBut
<1>2. CASE WriteUpdate
  <2>1. project' \in Config({Mask}) /\ OwnBut(project', FALSE)
    BY <1>2 DEF WriteUpdate
  <2> QED
    BY <1>2, <2>1 DEF WriteUpdate, OwnBut
<1>3. CASE BeginCreate
  <2>1. create' \in Config({Mask}) /\ OwnBut(create', nulling)
    <3>1. CASE create' = project
      BY <3>1 DEF Config, OwnBut
    <3>2. CASE create' \in Submitted
      BY <3>2, SubmittedFits DEF OwnBut
    <3> QED
      BY <1>3, <3>1, <3>2 DEF BeginCreate
  <2> QED
    BY <1>3, <2>1 DEF BeginCreate, OwnBut
<1>4. ASSUME NEW r \in Runs, BeginClone(r)
      PROVE  CredentialInv'
  <2>1. PICK move \in Move : \E ref, extra \in Entered(teacher[r], move) :
            /\ ~Refused(teacher[r], move, ref, extra)
            /\ create' = Cloned(teacher[r], move, ref, extra)
            /\ nulling' = CarriedOver(r, move, ref)
    BY <1>4 DEF BeginClone
  <2>2. PICK ref \in Entered(teacher[r], move), extra \in Entered(teacher[r], move) :
            /\ ~Refused(teacher[r], move, ref, extra)
            /\ create' = Cloned(teacher[r], move, ref, extra)
            /\ nulling' = CarriedOver(r, move, ref)
    BY <2>1
  <2>3. teacher[r] \in Config({Mask}) /\ OwnBut(teacher[r], r \in nulled)
    BY <1>4 DEF BeginClone
  <2>4. create' \in Config({Mask}) /\ OwnBut(create', nulling')
    BY <2>2, <2>3, CloneStores
  <2>5. nulling' \in BOOLEAN
    BY <2>2 DEF CarriedOver
  <2> QED
    BY <1>4, <2>4, <2>5 DEF BeginClone, OwnBut
<1>5. ASSUME NEW r \in Runs, InsertRun(r)
      PROVE  CredentialInv'
  <2>1. /\ create \in Config({Mask}) /\ OwnBut(create, nulling) /\ nulling \in BOOLEAN
        /\ teacher[r] = Absent /\ teacher' = [teacher EXCEPT ![r] = Resolved(create)]
        /\ nulled' = IF nulling /\ create.service = NoService THEN nulled \cup {r} ELSE nulled \ {r}
    BY <1>5 DEF InsertRun
  <2>2. /\ Resolved(create) \in Config({Mask})
        /\ Resolved(create).service = create.service
        /\ OwnBut(Resolved(create), nulling /\ create.service = NoService)
    BY <2>1, ResolveStores
  <2>3. teacher' \in [Runs -> Config({Mask}) \cup {Absent}] /\ nulled' \subseteq Runs
    BY <2>1, <2>2
  <2>4. ASSUME NEW q \in Runs, teacher'[q] # Absent
        PROVE  /\ OwnBut(teacher'[q], q \in nulled')
               /\ q \in nulled' => teacher'[q].service = NoService
    <3>1. CASE q = r
      <4>1. teacher'[q] = Resolved(create)
        BY <2>1, <3>1
      <4>2. nulling /\ create.service = NoService => q \in nulled'
        BY <2>1, <3>1
      <4>3. q \in nulled' => create.service = NoService
        BY <2>1, <3>1
      <4> QED
        BY <2>2, <4>1, <4>2, <4>3 DEF OwnBut
    <3>2. CASE q # r
      <4>1. teacher'[q] = teacher[q] /\ (q \in nulled' <=> q \in nulled)
        BY <2>1, <3>2
      <4> QED
        BY <2>4, <4>1 DEF OwnBut
    <3> QED
      BY <3>1, <3>2
  <2> QED
    BY <1>5, <2>3, <2>4 DEF InsertRun, OwnBut
<1>6. CASE GiveUp
  BY <1>6 DEF GiveUp
<1>7. CASE ServiceMoves
  BY <1>7 DEF ServiceMoves
<1>8. CASE UNCHANGED credentialVars
  BY <1>8 DEF credentialVars
<1> QED
  BY <1>1, <1>2, <1>3, <1>4, <1>5, <1>6, <1>7, <1>8 DEF CredentialNext

LEMMA CredentialInvariant == CredentialSpec => []CredentialInv
BY CredentialInitially, CredentialStep, PTL DEF CredentialSpec

-----------------------------------------------------------------------------
(* The state is always of its types: an update of the project stores no    *)
(* mask where there was none, and no null is stored anywhere.              *)
THEOREM CredentialTypeCorrect == CredentialSpec => []CredentialTypeOK
<1>1. CredentialInv => CredentialTypeOK
  BY DEF CredentialInv
<1> QED
  BY <1>1, CredentialInvariant, PTL

(* Every secret of extra_params, and every reference that no null carried  *)
(* over from another teacher, is one of the teacher it is stored with.     *)
THEOREM SecretsStayWithTeacher == CredentialSpec => []SecretsStayUnlessNulled
<1>1. CredentialInv => SecretsStayUnlessNulled
  BY DEF CredentialInv
<1> QED
  BY <1>1, CredentialInvariant, PTL

(* Until a null carries a reference over, every stored secret, the         *)
(* reference as well, is one of the teacher it is stored with.             *)
THEOREM SecretsStayUntilNulled == CredentialSpec => [](nulled = {} => SecretsStay)
<1>1. CredentialInv => (nulled = {} => SecretsStay)
  BY DEF CredentialInv, SecretsStayUnlessNulled, SecretsStay, OwnBut
<1> QED
  BY <1>1, CredentialInvariant, PTL

(* A clone whose teacher stays has the secrets of its source.              *)
THEOREM ClonesKeepTheirSecrets == CredentialSpec => []CloneKeepsSecrets
<1>1. ASSUME NEW old \in Config({Mask}), NEW move \in Move, Same(old, move),
             NEW ref \in {Mask, Absent}, NEW extra \in {Mask, Absent}
      PROVE  ~Refused(old, move, ref, extra) /\ Cloned(old, move, ref, extra) = old
  <2>1. Where(old, move) = old.where /\ Service(old, move) = old.service
    BY <1>1 DEF Same
  <2>2. NullRef(ref, old) = ref /\ NullExtra(extra) = extra
    BY CredentialAssumption DEF NullRef, NullExtra
  <2>3. /\ Retain(ref, old.ref, Same(old, move)) = old.ref
        /\ Retain(extra, old.extra, Same(old, move)) = old.extra
    BY <1>1 DEF Retain, Merged
  <2> QED
    BY <1>1, <2>1, <2>2, <2>3 DEF Cloned, Config, Refused
<1>2. CredentialInv => CloneKeepsSecrets
  BY <1>1 DEF CredentialInv, CredentialTypeOK, CloneKeepsSecrets
<1> QED
  BY <1>2, CredentialInvariant, PTL
=============================================================================
