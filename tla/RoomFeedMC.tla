---------------------------- MODULE RoomFeedMC ----------------------------
(* One browser, two rooms and two givers; a snapshot and a podium of one    *)
(* entry, so that a guest can be missing from either.                       *)
EXTENDS RoomFeed
=============================================================================
