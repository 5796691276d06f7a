------------------------------ MODULE MCOffer -------------------------------
(***************************************************************************)
(* OfferIndex on offers of two or three of the seller's shares.            *)
(***************************************************************************)
EXTENDS OfferIndex
============================================================================
