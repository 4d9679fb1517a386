-------------------------------- MODULE MCParts --------------------------------
(***************************************************************************)
(* Parts of the system that share nothing, for safety: the checks of the   *)
(* heartbeats of a bot, the jobs of trade holds, what the bot tells of its *)
(* offers, and desired listings that backpack.tf takes for one (the        *)
(* configuration gives the constants of all of them their values, small    *)
(* ones).  A behaviour is one of one of them, which is chosen at the       *)
(* start, and the others stay as they begin.  The proofs are of this       *)
(* composition, for all values of the constants.                           *)
(***************************************************************************)
EXTENDS Heartbeats, TLC

CONSTANTS
  HoldCall, HoldToken, HoldBot, MaxHoldAttempts, MaxHoldFaults,   \* of Escrow
  Hash, Twin, Recreate, MaxVersion, MaxChanges,                   \* of Listings
  Offer, Request, Kind, TellFault, MaxQueue, MaxTellFaults        \* of TradePublish

VARIABLES
  component,   \* the one that was chosen
  hold, during, holdJob, holdRun, holdCall, holdFaults,
  desired, current, market, createQ, updateQ, deleteQ, listed, batch, plan, changes,
  ours, stage, request, before, newer, cache, polled, data, saved, missing, queue, pub, last,
  floor, doubt, repeated, deaf, tellFaults

holds == <<hold, during, holdJob, holdRun, holdCall, holdFaults>>
twins == <<desired, current, market, createQ, updateQ, deleteQ, listed, batch, plan, changes>>
tells == <<ours, stage, request, before, newer, cache, polled, data, saved, missing, queue, pub,
           last, floor, doubt, repeated, deaf, tellFaults>>

Hold == INSTANCE Escrow WITH
  cache <- hold, job <- holdJob, run <- holdRun, call <- holdCall, faults <- holdFaults,
  Call <- HoldCall, Token <- HoldToken, Bot <- HoldBot, MaxAttempts <- MaxHoldAttempts,
  MaxFaults <- MaxHoldFaults

Twins == INSTANCE Listings WITH events <- listed

Offers == INSTANCE TradePublish WITH
  req <- request, faults <- tellFaults, Fault <- TellFault, MaxFaults <- MaxTellFaults

\* of those that are not chosen, one initial state is enough
MCInit ==
  /\ component \in {"heartbeats", "holds", "twins", "tells"}
  /\ Init /\ Hold!Init /\ Twins!Init /\ Offers!Init
  /\ component # "tells" => ours = [o \in Offer |-> TRUE]

MCNext ==
  /\ UNCHANGED component
  /\ \/ component = "heartbeats" /\ Next /\ UNCHANGED <<holds, twins, tells>>
     \/ component = "holds" /\ Hold!Next /\ UNCHANGED <<vars, twins, tells>>
     \/ component = "twins" /\ Twins!Next /\ UNCHANGED <<vars, holds, tells>>
     \/ component = "tells" /\ Offers!Next /\ UNCHANGED <<vars, holds, twins>>

MCSpec == MCInit /\ [][MCNext]_<<component, vars, holds, twins, tells>>

\* hosts and beats are interchangeable
Symmetry == Permutations(Host) \cup Permutations(Beat)

\* The types of all of them but of the desired listings, whose types are checked and proved
\* where they are not twins (MCListings)
TypesOK == TypeOK /\ Hold!TypeOK /\ Offers!TypeOK

\* What the bot has cached of its offers as FreshCache has it
Mirror == INSTANCE FreshCache WITH Thing <- Offer, cached <- cache, asked <- floor

\* A request with a token is not turned away with an older error (Escrow)
NoStaleRefusal == Hold!NoStaleRefusal

\* Desired listings that backpack.tf takes for the same listing are told apart (Listings)
OneOwner == Twins!OneOwner

\* No change of an offer is told twice in a row (TradePublish)
NoRepeat == Offers!NoRepeat

\* An answer does not replace one that was asked for later (TradePublish)
CacheNotBehind == Offers!CacheNotBehind
===============================================================================
