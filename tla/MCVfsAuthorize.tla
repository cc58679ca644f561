--------------------------- MODULE MCVfsAuthorize --------------------------
(***************************************************************************)
(* Model-checking instance of VfsAuthorize.  Users, Groups, EVERYONE and  *)
(* NONE are model values (.cfg).  The requests enumerate every right      *)
(* alone and the pairs that mix the checks: write with NOIMMUTABLE,       *)
(* delete with a write or with execute, read with execute.  Objects       *)
(* cover a regular file, a directory and a device (the read-only check    *)
(* skips devices), modes with and without x bits, every immutability flag *)
(* and an ACL with an explicit deny, one with an allow.  The caller is    *)
(* the owner, a group member, a stranger or root.                         *)
(***************************************************************************)
EXTENDS VfsAuthorize

CONSTANTS u1, u2, g1, g2

MCRights ==
  {"READ_DATA", "EXECUTE", "WRITE_DATA", "APPEND_DATA", "DELETE",
   "DELETE_CHILD", "WRITE_ATTRIBUTES", "LINKTARGET", "READ_ATTRIBUTES"}

MCActions ==
  {{r} : r \in MCRights}
  \cup {{"WRITE_DATA", "NOIMMUTABLE"}, {"DELETE", "WRITE_DATA"},
        {"DELETE", "EXECUTE"}, {"READ_DATA", "EXECUTE"},
        {"LINKTARGET", "ACCESS"}}

AceDenyWrite  == [kind |-> "DENY",  who |-> u2, rights |-> {"WRITE_DATA", "DELETE"}]
AceAllowAll   == [kind |-> "ALLOW", who |-> EVERYONE,
                  rights |-> {"WRITE_DATA", "DELETE", "EXECUTE"}]

MCObjects ==
  [type : {"VREG", "VDIR", "VCHR"}, mode : {420, 493}, uid : {u1}, gid : {g1},
   flags : {{}, {"UF_IMMUTABLE"}, {"SF_IMMUTABLE"}, {"APPEND"}},
   acl : {<<>>, <<AceDenyWrite, AceAllowAll>>}]

MCParents ==
  {NONE} \cup
  [type : {"VDIR"}, mode : {493, 511}, uid : {u1}, gid : {g1},
   flags : {{}, {"SF_IMMUTABLE"}}, acl : {<<>>}]

MCMounts ==
  [rdonly : BOOLEAN, noexec : BOOLEAN, extsec : {TRUE}]

MCCreds ==
  {[uid |-> u1, gids |-> {g1}, suser |-> FALSE],
   [uid |-> u2, gids |-> {g1}, suser |-> FALSE],
   [uid |-> u2, gids |-> {g2}, suser |-> FALSE],
   [uid |-> u2, gids |-> {g2}, suser |-> TRUE]}

MCCalls ==
  [action : MCActions, vap : MCObjects, dvap : MCParents,
   mp : MCMounts, cred : MCCreds]
=============================================================================
