------------------------------ MODULE KeyCodec ------------------------------
(***************************************************************************)
(* The string keys data units are saved under: UnitKey.Key joins the four  *)
(* names with '|', ParseUnitKey splits them again when the snapshot is     *)
(* loaded.  A name is the sequence of its parts between '|' characters: an *)
(* ordinary name has one part.  Member names are checked when a member is  *)
(* added (ValidMemberName admits no '|'); the cube of an import profile is *)
(* free text that nothing checks, and an import commit creates its units   *)
(* under it.  Scenario and month are left out of what a request chooses.   *)
(***************************************************************************)
EXTENDS Naturals, Sequences, FiniteSets

CONSTANTS CubeTexts,    \* cubes a profile may be posted with
          EntityNames,  \* entities of the metadata
          Profiles      \* profile names

VARIABLES profiles,  \* AppState.Profiles: name -> cube
          units,     \* keys of the units in memory
          file,      \* keys in the snapshot, as joined
          up         \* whether the server has loaded its state

vars == <<profiles, units, file, up>>


\* UnitKey.Key: the parts between '|' of the joined string.
Key(u) == u.cube \o u.entity \o u.scenario \o u.time

\* ParseUnitKey: exactly four parts, or an error.
Parses(s) == Len(s) = 4
ParseUnitKey(s) == [cube |-> <<s[1]>>, entity |-> <<s[2]>>, scenario |-> <<s[3]>>, time |-> <<s[4]>>]

Init == profiles = [p \in {} |-> <<>>] /\ units = {} /\ file = {} /\ up = TRUE

\* handleProfilesPost, handleProfilePut: the name must not be empty, that is all.
PutProfile(p, cube) ==
  /\ up
  /\ profiles' = [q \in DOMAIN profiles \cup {p} |-> IF q = p THEN cube ELSE profiles[q]]
  /\ UNCHANGED <<units, file, up>>

\* handleProfileDelete.
DeleteProfile(p) ==
  /\ up /\ p \in DOMAIN profiles
  /\ profiles' = [q \in DOMAIN profiles \ {p} |-> profiles[q]]
  /\ UNCHANGED <<units, file, up>>

\* handleImportCommit of one clean row for entity e; it saves before it answers.
ImportCommit(p, e) ==
  /\ up /\ p \in DOMAIN profiles
  /\ units' = units \cup {[cube |-> profiles[p], entity |-> e,
                           scenario |-> <<"Actual">>, time |-> <<"2025M1">>]}
  /\ file' = {Key(u) : u \in units'}
  /\ UNCHANGED <<profiles, up>>

\* runServe after a stop: one key that does not parse and Load fails.
Restart ==
  /\ up' = \A s \in file : Parses(s)
  /\ units' = IF up' THEN {ParseUnitKey(s) : s \in file} ELSE {}
  /\ UNCHANGED <<profiles, file>>

Next == \/ \E p \in Profiles, cube \in CubeTexts : PutProfile(p, cube)
        \/ \E p \in Profiles : DeleteProfile(p)
        \/ \E p \in Profiles, e \in EntityNames : ImportCommit(p, e)
        \/ Restart

Spec == Init /\ [][Next]_vars

(* types.go:28 says that ParseUnitKey reverses UnitKey.Key: a snapshot the *)
(* server saved is one it can load, unit for unit.                         *)
ParseReversesKey == \A u \in units : Parses(Key(u)) /\ ParseUnitKey(Key(u)) = u
=============================================================================
