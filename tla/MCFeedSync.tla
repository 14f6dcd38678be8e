----------------------------- MODULE MCFeedSync -----------------------------
(***************************************************************************)
(* FeedSync for TLC: a text feed, and a JSON feed served without           *)
(* validators.  Two upstream changes each, the first one of the JSON feed  *)
(* no JSON, and two faults: a crash in the middle of a download and        *)
(* another one, or a lost file, later.                                     *)
(***************************************************************************)
EXTENDS FeedSync

CONSTANTS ipsum, disposable

MCFeeds      == {ipsum, disposable}
MCJsonFeeds  == {disposable}
MCValidating == {ipsum}
MCReachable  == {ipsum}
MCBroken     == {<<disposable, 2>>}
=============================================================================
