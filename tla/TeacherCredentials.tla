------------------------- MODULE TeacherCredentials -------------------------
(***************************************************************************)
(* The teacher of a project and of its runs, and the secrets that go with  *)
(* it.  Clients see a mask in place of a secret and may send it back; the  *)
(* service puts the secret in again if the connection is the same, and     *)
(* wants a new one if it is not.  A run keeps a copy of its own.           *)
(*                                                                         *)
(* A secret is named by the teacher that accepts it, and a client enters a *)
(* secret only for the teacher it names in the same request.  Endpoint and *)
(* model name are one value, "where"; extra_params has one secret.         *)
(***************************************************************************)
CONSTANTS
    Places,     \* where a teacher may be
    Services,   \* services of the model centre
    NoPlace,    \* endpoint = ""
    NoService,  \* service_id = ""
    Empty,      \* no secret
    Mask,       \* "********"
    Null,       \* null in a patch
    Absent,     \* a key a patch does not have, a row or a request that is not there
    Runs

ASSUME CredentialAssumption ==
    /\ Places \cap Services = {}
    /\ NoPlace \notin Places \cup Services /\ NoService \notin Places \cup Services
    /\ {Empty, Mask, Null, Absent} \cap (Places \cup Services \cup {NoPlace}) = {}
    /\ Empty # Mask /\ Empty # Null /\ Empty # Absent
    /\ Mask # Null /\ Mask # Absent /\ Null # Absent

VARIABLES
    project,   \* the teacher of the project
    teacher,   \* [run -> its teacher, Absent before it is created]
    centre,    \* [service -> where it runs]
    update,    \* the row an update is about to write
    create,    \* the teacher a create or clone request is about to insert
    nulling,   \* history: a null carried the reference in create over from
               \* another teacher
    nulled     \* history: the runs that were inserted so

credentialVars == <<project, teacher, centre, update, create, nulling, nulled>>

Secret == Places \cup Services \cup {Empty}

Config(masks) ==
    [where : Places \cup {NoPlace}, service : Services \cup {NoService},
     ref : Secret \cup masks, extra : Secret \cup masks]

(* A mask is stored if a client sends it when a project or a run is        *)
(* created, and goes on to runs and clones; an update of the project       *)
(* stores none where there was none.                                       *)
CredentialTypeOK ==
    /\ project \in Config({Mask})
    /\ teacher \in [Runs -> Config({Mask}) \cup {Absent}]
    /\ centre \in [Services -> Places]
    /\ update \in Config({Mask}) \cup {Absent}
    /\ update # Absent => /\ update.ref = Mask => project.ref = Mask
                          /\ update.extra = Mask => project.extra = Mask
    /\ create \in Config({Mask}) \cup {Absent}
    /\ nulling \in BOOLEAN
    /\ nulled \subseteq Runs

-----------------------------------------------------------------------------
(* What clients send: a service without a place, or a place; the secret    *)
(* that it accepts, none, or a mask they were shown.                       *)
Named(where, service) == IF service # NoService THEN service ELSE where

Given(where, service) ==
    IF where = NoPlace /\ service = NoService THEN {Empty} ELSE {Empty, Named(where, service)}

Chosen ==
    {<<p, NoService>> : p \in Places \cup {NoPlace}} \cup {<<NoPlace, s>> : s \in Services}

Submitted ==
    UNION {[where : {t[1]}, service : {t[2]}, ref : Given(t[1], t[2]) \cup {Mask},
            extra : Given(t[1], t[2]) \cup {Mask}] : t \in Chosen}

(* CreateProject stores what it is given, masks and all.                   *)
CredentialInit ==
    /\ project \in Submitted
    /\ teacher = [r \in Runs |-> Absent]
    /\ centre \in [Services -> Places]
    /\ update = Absent
    /\ create = Absent
    /\ nulling = FALSE
    /\ nulled = {}

-----------------------------------------------------------------------------
SameConnection(old, new) == new.where = old.where /\ new.service = old.service

Secrets(c) == {c.ref, c.extra}

(* UpdateProject: read, put the secrets in again, write the whole row.     *)
(* The first form is a bug kept for the mutation runs.                     *)
UnmaskNothing(value, old) == value

Unmask(value, old) == IF value = Mask THEN old ELSE value

Unmasked(new, old) ==
    [where |-> new.where, service |-> new.service,
     ref   |-> Unmask(new.ref, old.ref),
     extra |-> Unmask(new.extra, old.extra)]

BeginUpdate(new) ==
    /\ update = Absent
    /\ Mask \in Secrets(new) => SameConnection(project, new)
    /\ update' = Unmasked(new, project)
    /\ UNCHANGED <<project, teacher, centre, create, nulling, nulled>>

WriteUpdate ==
    /\ update # Absent
    /\ project' = update
    /\ update' = Absent
    /\ UNCHANGED <<teacher, centre, create, nulling, nulled>>

(* CreatePipeline with a teacher of its own, masks and all, or with that   *)
(* of the project.                                                         *)
BeginCreate ==
    /\ create = Absent
    /\ create' \in Submitted \cup {project}
    /\ UNCHANGED <<project, teacher, centre, update, nulling, nulled>>

-----------------------------------------------------------------------------
(* The part of a patch that moves the teacher; the place may be changed by *)
(* its endpoint or by its model name.                                      *)
Move ==
    [where : Places \cup {Absent}, byEndpoint : BOOLEAN, service : Services \cup {NoService, Absent}]

Merged(value, old) == IF value = Absent THEN old ELSE value

Where(old, move) == Merged(move.where, old.where)

(* Moving to a manual endpoint leaves the service.                         *)
Service(old, move) ==
    IF move.service = Absent /\ move.byEndpoint /\ Where(old, move) # old.where
    THEN NoService
    ELSE Merged(move.service, old.service)

Same(old, move) == Where(old, move) = old.where /\ Service(old, move) = old.service

(* The part with a secret: a client enters one of the teacher it moves to. *)
Entered(old, move) == Given(Where(old, move), Service(old, move)) \cup {Mask, Absent, Null}

(* retainCloneCredentials for one secret: value is what the patch says,    *)
(* and the code looks at it merged with the secret of the source.  The     *)
(* first forms are bugs kept for the mutation runs: what the patch does    *)
(* not have is always kept, or never.                                      *)
RetainAlways(value, old, same) ==
    IF Merged(value, old) = Mask THEN old ELSE Merged(value, old)

RetainMasked(value, old, same) ==
    IF value = Mask THEN old ELSE IF value = Absent THEN Empty ELSE value

Retain(value, old, same) ==
    IF Merged(value, old) = Mask THEN old
    ELSE IF value = Absent /\ ~same THEN Empty
    ELSE Merged(value, old)

(* null leaves the string of a reference as it was when it is decoded, and *)
(* counts as supplied; in the map of extra_params it is no secret.         *)
NullRef(ref, old) == IF ref = Null THEN old.ref ELSE ref

NullExtra(extra) == IF extra = Null THEN Empty ELSE extra

Cloned(old, move, ref, extra) ==
    [where   |-> Where(old, move),
     service |-> Service(old, move),
     ref     |-> Retain(NullRef(ref, old), old.ref, Same(old, move)),
     extra   |-> Retain(NullExtra(extra), old.extra, Same(old, move))]

(* The masks of the merged configuration, the source's own among them.     *)
Refused(old, move, ref, extra) ==
    /\ ~Same(old, move)
    /\ Mask \in {Merged(NullRef(ref, old), old.ref), Merged(NullExtra(extra), old.extra)}

(* The reference comes from the source, which belongs to another teacher   *)
(* or had it from one.                                                     *)
CarriedOver(r, move, ref) ==
    \/ ref = Null /\ ~Same(teacher[r], move)
    \/ r \in nulled /\ (ref = Null \/ (ref \in {Mask, Absent} /\ Same(teacher[r], move)))

BeginClone(r) ==
    /\ create = Absent /\ teacher[r] # Absent
    /\ \E move \in Move : \E ref, extra \in Entered(teacher[r], move) :
           /\ ~Refused(teacher[r], move, ref, extra)
           /\ create' = Cloned(teacher[r], move, ref, extra)
           /\ nulling' = CarriedOver(r, move, ref)
    /\ UNCHANGED <<project, teacher, centre, update, nulled>>

-----------------------------------------------------------------------------
(* Resolve: a service says where it is and what its secret is.             *)
Resolved(c) ==
    IF c.service = NoService THEN c ELSE [c EXCEPT !.where = centre[c.service], !.ref = c.service]

(* The request fails, for instance because the service is offline.         *)
GiveUp ==
    /\ create # Absent
    /\ create' = Absent
    /\ nulling' = FALSE
    /\ UNCHANGED <<project, teacher, centre, update, nulled>>

InsertRun(r) ==
    /\ create # Absent /\ teacher[r] = Absent
    /\ Resolved(create).where # NoPlace
    /\ teacher' = [teacher EXCEPT ![r] = Resolved(create)]
    /\ nulled' = IF nulling /\ create.service = NoService THEN nulled \cup {r} ELSE nulled \ {r}
    /\ create' = Absent
    /\ nulling' = FALSE
    /\ UNCHANGED <<project, centre, update>>

(* A service moves.                                                        *)
ServiceMoves ==
    /\ centre' \in [Services -> Places]
    /\ UNCHANGED <<project, teacher, update, create, nulling, nulled>>

CredentialNext ==
    \/ \E new \in Submitted : BeginUpdate(new)
    \/ WriteUpdate
    \/ BeginCreate
    \/ \E r \in Runs : BeginClone(r) \/ InsertRun(r)
    \/ GiveUp
    \/ ServiceMoves

CredentialSpec == CredentialInit /\ [][CredentialNext]_credentialVars

-----------------------------------------------------------------------------
(* A mask is no secret.  A reference that a null carried over is excused.  *)
OwnBut(c, excused) ==
    /\ c.extra \in Given(c.where, c.service) \cup {Mask}
    /\ c.ref \in Given(c.where, c.service) \cup {Mask} \/ excused

(* A secret that is stored is one of the teacher it is stored with.  This  *)
(* is what the handoff document and the test of the clones say; a null for *)
(* the reference (see Cloned) breaks it.                                   *)
SecretsStay ==
    /\ OwnBut(project, FALSE)
    /\ \A r \in Runs : teacher[r] # Absent => OwnBut(teacher[r], FALSE)

(* And this is what the code keeps, whatever was updated, cloned, patched  *)
(* and moved before: every secret in extra_params is one of the teacher it *)
(* is with, and so is every reference but those that a null carried over,  *)
(* in rows with a manual endpoint; a project is never among them.          *)
SecretsStayUnlessNulled ==
    /\ OwnBut(project, FALSE)
    /\ update # Absent => OwnBut(update, FALSE)
    /\ create # Absent => OwnBut(create, nulling)
    /\ \A r \in Runs : teacher[r] # Absent =>
           /\ OwnBut(teacher[r], r \in nulled)
           /\ r \in nulled => teacher[r].service = NoService

(* A clone that may begin and does not change the teacher has the secrets  *)
(* of its source, if the client leaves them out or sends the masks it was  *)
(* shown, whichever fields the patch names again.                          *)
CloneKeepsSecrets ==
    \A r \in Runs : create = Absent /\ teacher[r] # Absent =>
        \A move \in Move : Same(teacher[r], move) =>
            \A ref, extra \in {Mask, Absent} :
                /\ ~Refused(teacher[r], move, ref, extra)
                /\ Cloned(teacher[r], move, ref, extra) = teacher[r]
=============================================================================
