-------------------------- MODULE MCExecutionEngine --------------------------
(***************************************************************************)
(* Small instances of ExecutionEngine.                                     *)
(***************************************************************************)
EXTENDS ExecutionEngine

CONSTANTS btc, eth, sol, bnb, Lot

Leg(symbol, side) == [symbol |-> symbol, side |-> side, qty |-> Lot]

(* One pair, for runs that follow a single pair and its hedge in depth. *)
OneSignal == { <<Leg(btc, "Buy"), Leg(eth, "Sell")>> }

(* Two pairs with no symbol in common, which may run side by side, and one *)
(* that shares a symbol with each of them.                                 *)
Crossing == { <<Leg(btc, "Buy"), Leg(eth, "Sell")>>,
              <<Leg(sol, "Buy"), Leg(bnb, "Sell")>>,
              <<Leg(sol, "Buy"), Leg(btc, "Sell")>> }
=============================================================================
