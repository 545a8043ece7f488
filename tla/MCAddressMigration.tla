-------------------------- MODULE MCAddressMigration --------------------------
(***************************************************************************)
(* The rewrite of AddressMigration, with the names of a module that        *)
(* explores other stores beside it.                                        *)
(***************************************************************************)
CONSTANTS MaxId, Inboxes, PageSize, MaxLive, Vacant

VARIABLES
  adapter, mailboxes, addressIndex, order, left, pc, cursor, seen, todo, result, live, inboxOf, crossed, joined, cut

migration ==
  <<adapter, mailboxes, addressIndex, order, left, pc, cursor, seen, todo, result, live, inboxOf, crossed, joined, cut>>

M == INSTANCE AddressMigration WITH record <- mailboxes, index <- addressIndex, Absent <- Vacant

\* A page holds two identities at least, and no identity is the absent one.
ASSUME MigrationAssumption == M!AddressMigrationAssumption

\* A run of the rewrite undoes nothing an owner did (normalizeEmailIdentifications).
RewritesAreSafe == M!RewritesAreSafe
=============================================================================
