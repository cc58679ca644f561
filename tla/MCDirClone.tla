----------------------------- MODULE MCDirClone -----------------------------
(***************************************************************************)
(* Model-checking instance of DirClone.  Two users and two groups (model  *)
(* values); a source that carries each of SF_RESTRICTED and UF_DATAVAULT  *)
(* or neither, a destination directory that carries them or not, every    *)
(* IGNORE_OWNERSHIP setting with and without override owner and group,   *)
(* caller owner, stranger or root, with and without NOOWNERCOPY.  The     *)
(* clone's read rights make every authorization outcome reachable.        *)
(***************************************************************************)
EXTENDS DirClone

CONSTANTS u1, u2, g1, g2, DstFlagsSupported, Destinations

MCSources ==
  [type : {"VREG", "VDIR"}, mode : {0, 420}, uid : {u1}, gid : {g1},
   flags : {{}, {"SF_RESTRICTED"}, {"UF_DATAVAULT", "APPEND"}}, acl : {<<>>}]

MCDirs ==
  [type : {"VDIR"}, mode : {493}, uid : {u2}, gid : {g2},
   flags : {{}, {"UF_DATAVAULT"}}, acl : {<<>>}]

MCMounts ==
  [rdonly : BOOLEAN, noexec : {FALSE}, extsec : {TRUE},
   ignore_ownership : BOOLEAN,
   fsowner : {KAUTH_UID_NONE, u2}, fsgroup : {KAUTH_GID_NONE, g1}]

MCCreds ==
  {[uid |-> u1, gid |-> g1, gids |-> {g1}, suser |-> FALSE],
   [uid |-> u2, gid |-> g1, gids |-> {g1}, suser |-> FALSE],
   [uid |-> u2, gid |-> g1, gids |-> {g1}, suser |-> TRUE]}

MCClones ==
  [action : {{"READ_DATA"}, {"READ_DATA", "WRITE_DATA"}},
   src : MCSources, dst : Destinations, mp : MCMounts, cred : MCCreds,
   noownercopy : BOOLEAN, dst_flags_supported : DstFlagsSupported]

MCDestinations == MCDirs
MCDestinationsOrNull == MCDirs \cup {NONE}
=============================================================================
