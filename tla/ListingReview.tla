---------------------------- MODULE ListingReview --------------------------
(***************************************************************************)
(* One marketplace listing and its only version: the creator edits,        *)
(* submits and archives it (creatorService), moderators approve it or send *)
(* it back (moderationService).  Every call reads the listing, decides on  *)
(* what it read, and then writes by id, in one transaction.                *)
(***************************************************************************)
EXTENDS Naturals

CONSTANTS
    Desks,       \* calls in flight
    MaxEdits,    \* bound: edits of the listing
    Plain        \* texts and manifests that are published without a review

ASSUME EditsAssumption == MaxEdits \in Nat /\ Plain \subseteq (0..MaxEdits)

VARIABLES
    listing,     \* the AgentDefinition row: status and text; the version's manifest, isActive
    desks,       \* desks[d]: a call in flight, and the listing it read
    edits,
    approved,    \* texts and manifests a moderator approved
    late         \* a call wrote after another one had written what it read

listingVars == <<listing, desks, edits, approved, late>>

Listings == [status : {"draft", "needs_review", "published", "archived"}, text : 0..MaxEdits,
             manifest : 0..MaxEdits, active : BOOLEAN]
NewListing == [status |-> "draft", text |-> 0, manifest |-> 0, active |-> FALSE]
NoDesk     == [op |-> "none", read |-> NewListing]

ListingInit ==
    /\ listing = NewListing
    /\ desks = [d \in Desks |-> NoDesk]
    /\ edits = 0 /\ approved = {} /\ late = FALSE

(* evaluateMarketplaceReadiness, of the text and the manifest. *)
PublishesAtOnce(l) == l.text \in Plain /\ l.manifest \in Plain

(* What a call must find. *)
Admits(op) ==
    CASE op = "edit"    -> {"draft", "needs_review"}
      [] op = "publish" -> {"draft"}
      [] op \in {"approve", "sendBack"} -> {"needs_review"}
      [] op = "archive" -> {"draft", "needs_review", "published"}

ReadListing(d, op) ==
    /\ desks[d] = NoDesk
    /\ listing.status \in Admits(op)
    /\ desks' = [desks EXCEPT ![d] = [op |-> op, read |-> listing]]
    /\ UNCHANGED <<listing, edits, approved, late>>

Write(d, op, new) ==
    /\ desks[d].op = op
    /\ listing' = new
    /\ desks' = [desks EXCEPT ![d] = NoDesk]
    /\ late' = (late \/ listing # desks[d].read)

(* What the creator leaves out is written as it was read. *)
Edit(d, field) ==
    /\ edits < MaxEdits
    /\ edits' = edits + 1
    /\ Write(d, "edit", [[desks[d].read EXCEPT ![field] = edits + 1]
                            EXCEPT !.status = "draft", !.active = FALSE])
    /\ UNCHANGED approved

BadPublish(d) ==
    LET atOnce == desks[d].read.text \in Plain
    IN  /\ Write(d, "publish", [listing EXCEPT
                     !.status = IF atOnce THEN "published" ELSE "needs_review", !.active = atOnce])
        /\ UNCHANGED <<edits, approved>>

Publish(d) ==
    LET atOnce == PublishesAtOnce(desks[d].read)
    IN  /\ Write(d, "publish", [listing EXCEPT
                     !.status = IF atOnce THEN "published" ELSE "needs_review", !.active = atOnce])
        /\ UNCHANGED <<edits, approved>>

(* The approval writes the manifest back as it was read. *)
Approve(d) ==
    LET read == desks[d].read
    IN  /\ Write(d, "approve", [listing EXCEPT
                     !.status = "published", !.active = TRUE, !.manifest = read.manifest])
        /\ approved' = approved \cup {<<read.text, read.manifest>>}
        /\ UNCHANGED edits

SendBack(d) ==
    /\ Write(d, "sendBack", [listing EXCEPT !.status = "draft", !.active = FALSE])
    /\ UNCHANGED <<edits, approved>>

Archive(d) ==
    /\ Write(d, "archive", [listing EXCEPT !.status = "archived"])
    /\ UNCHANGED <<edits, approved>>

AbandonCall(d) ==
    /\ desks[d] # NoDesk
    /\ desks' = [desks EXCEPT ![d] = NoDesk]
    /\ UNCHANGED <<listing, edits, approved, late>>

ListingNext ==
    \/ \E d \in Desks, op \in {"edit", "publish", "approve", "sendBack", "archive"} : ReadListing(d, op)
    \/ \E d \in Desks, field \in {"text", "manifest"} : Edit(d, field)
    \/ \E d \in Desks : Publish(d) \/ Approve(d) \/ SendBack(d) \/ Archive(d) \/ AbandonCall(d)

ListingSpec == ListingInit /\ [][ListingNext]_listingVars

-----------------------------------------------------------------------------
(* Properties. *)

(* What is published was found ready, or approved by a moderator, in the very   *)
(* text and manifest it has, as long as no call wrote over what it had not      *)
(* read.                                                                        *)
PublishedWasJudged ==
    listing.status = "published" =>
        \/ PublishesAtOnce(listing)
        \/ <<listing.text, listing.manifest>> \in approved
        \/ late
=============================================================================
