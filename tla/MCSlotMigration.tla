-------------------------- MODULE MCSlotMigration --------------------------
(***************************************************************************)
(* Small instances of SlotMigration.                                       *)
(***************************************************************************)
EXTENDS SlotMigration, TLC

\* The groups are interchangeable.
GroupSymmetry == Permutations(Groups)

\* Where a behaviour need not be followed any further: KeysReachable claims nothing once a
\* proxy without a fence has written.  No other property depends on keys, and no guard but
\* that of MigrateSome, which changes nothing else: so the other properties lose nothing.
BeforeStray == ~stray
=============================================================================
