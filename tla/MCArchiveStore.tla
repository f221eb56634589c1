--------------------------- MODULE MCArchiveStore ---------------------------
(***************************************************************************)
(* Three archives, one exporter and one step of another program.  Archives *)
(* s1 and s2 show the same failure; t1 another; s2 is the larger one.      *)
(***************************************************************************)
EXTENDS ArchiveStore, TLC

CONSTANTS a, b, c, exporter, s1, s2, t1

MCSorted == <<exporter, a, b, c>>
MCTarget == exporter :> c
MCBundle == exporter :> s1
MCSignature == (s1 :> "s") @@ (s2 :> "s") @@ (t1 :> "t")
MCSize == (s1 :> 1) @@ (s2 :> 2) @@ (t1 :> 1)
\* Equal mtimes make names decide; c is the oldest, or does not exist yet.
MCInitial == (a :> {s1, s2, t1}) @@ (b :> {s1, t1}) @@ (c :> {"absent", t1})
MCModified == (a :> 1) @@ (b :> 1) @@ (c :> 0)

Policy(count, bytes, preserve) ==
  [max_archives |-> count, max_total_archive_bytes |-> bytes,
   preserve_unique_failures |-> preserve]
MCPolicies ==
  {Policy(1, 9, FALSE), Policy(2, 9, TRUE), Policy(3, 3, TRUE)}
=============================================================================
