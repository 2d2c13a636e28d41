----------------------------- MODULE BookMirror -----------------------------
(***************************************************************************)
(* What the order book and its GPU copy promise: an update changes one     *)
(* level of one side in one step, and a push copies the whole book as it   *)
(* is at one moment -- unless it is flagged as forced, when the copy may   *)
(* be any mixture.                                                         *)
(***************************************************************************)
CONSTANTS Slots, Values,
          Seed, Blank   \* what a fresh book and a fresh copy hold

VARIABLES book, mirror, forced

Contents == Values \cup {Seed, Blank}

Sides == {"Bid", "Ask"}

Words == Sides \X {"price", "qty"} \X Slots

Updates == [side: Sides, slot: Slots, price: Values, qty: Values]

Touched(u) == {<<u.side, "price", u.slot>>, <<u.side, "qty", u.slot>>}

New(u, w) == IF w[2] = "price" THEN u.price ELSE u.qty

With(b, u) == [w \in Words |-> IF w \in Touched(u) THEN New(u, w) ELSE b[w]]

MirrorInit ==
    /\ book = [w \in Words |-> Seed]
    /\ mirror = [w \in Words |-> Blank]
    /\ forced = FALSE

ApplyUpdate(u) ==
    /\ book' = With(book, u)
    /\ UNCHANGED <<mirror, forced>>

PushExact ==
    /\ mirror' = book /\ forced' = FALSE
    /\ UNCHANGED book

PushTorn ==
    /\ mirror' \in [Words -> Contents] /\ forced' = TRUE
    /\ UNCHANGED book

MirrorNext == PushExact \/ PushTorn \/ \E u \in Updates : ApplyUpdate(u)

MirrorSpec == MirrorInit /\ [][MirrorNext]_<<book, mirror, forced>>
=============================================================================
