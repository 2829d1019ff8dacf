---------------------------- MODULE MCModelData ----------------------------
(***************************************************************************)
(* The data of a chunk on its way through the model, for TLC: in time (the *)
(* VAE with its conditioning, the projections of low-quality frames, the   *)
(* windows of a chunk), in space (tiles) and as tokens.  These share       *)
(* nothing, so a behaviour is about one of them.                           *)
(***************************************************************************)
EXTENDS ConditionedVae, LqProj, SpatialTiles, TemporalConditioning, AttentionMasks

VARIABLE about

vaevars == <<vars, zero_convs>>

MCInit ==
  /\ CondInit /\ LqInit /\ TilesInit /\ TemporalInit /\ AttentionInit
  /\ about \in {"vae", "projection", "tiles", "time", "attention"}

MCNext ==
  /\ UNCHANGED about
  /\ \/ about = "vae" /\ CondNext /\ UNCHANGED zero_convs
        /\ UNCHANGED <<lqvars, tilevars, tempvars, attnvars>>
     \/ about = "projection" /\ LqNext
        /\ UNCHANGED <<vaevars, tilevars, tempvars, attnvars>>
     \/ about = "tiles" /\ TilesNext
        /\ UNCHANGED <<vaevars, lqvars, tempvars, attnvars>>
     \/ about = "time" /\ TemporalNext
        /\ UNCHANGED <<vaevars, lqvars, tilevars, attnvars>>
     \/ about = "attention" /\ AttentionNext
        /\ UNCHANGED <<vaevars, lqvars, tilevars, tempvars>>

MCSpec == MCInit /\ [][MCNext]_<<vaevars, lqvars, tilevars, tempvars, attnvars, about>>
=============================================================================
