---------------------------- MODULE ModelArtifact ---------------------------
(***************************************************************************)
(* The file of the trained model and the workers that classify with it     *)
(* (app/classification/ml.py, training.py).  A worker loads the file once, *)
(* checks it against the configured version and keeps it until it ends;    *)
(* without a model it follows the rules.  The file is written in place.    *)
(***************************************************************************)
EXTENDS Naturals, NullValue

CONSTANTS
  Workers,
  Versions,  \* versions of the model
  MaxSaves   \* bound: files that are written

ASSUME ArtifactAssumption == None \notin Versions /\ MaxSaves \in Nat

VARIABLES
  file,     \* the version in the file, None when there is none or it is invalid
  writing,  \* the version that is being written over it
  config,   \* ML_MODEL_VERSION of the deployment, None when any will do
  expected, \* the one each worker has started with
  artifact,    \* the artifact each worker has loaded
  used,     \* the model_version of its last prediction, None for the rules
  saves

artifactVars == <<file, writing, config, expected, artifact, used, saves>>

ArtifactInit ==
  /\ file = None /\ writing = None /\ saves = 0 /\ config = None
  /\ expected = [w \in Workers |-> None]
  /\ artifact = [w \in Workers |-> None] /\ used = [w \in Workers |-> None]

\* save_artifact: dump() truncates the file and writes the new model.
StartSave(v) ==
  /\ writing = None /\ saves < MaxSaves /\ saves' = saves + 1
  /\ file' = None /\ writing' = v /\ UNCHANGED <<config, expected, artifact, used>>

EndSave ==
  /\ writing # None /\ file' = writing /\ writing' = None
  /\ UNCHANGED <<config, expected, artifact, used, saves>>

Configure(v) ==
  config' = v /\ UNCHANGED <<file, writing, expected, artifact, used, saves>>

\* A worker process starts, with the settings of the deployment.
Restart(w) ==
  /\ expected' = [expected EXCEPT ![w] = config]
  /\ artifact' = [artifact EXCEPT ![w] = None] /\ used' = [used EXCEPT ![w] = None]
  /\ UNCHANGED <<file, writing, config, saves>>

\* load_cached_artifact without the check of the version
Loaded_Mutant(w) == IF artifact[w] # None THEN artifact[w] ELSE file

\* load_cached_artifact: an exception is not kept
Loaded(w) ==
  IF artifact[w] # None THEN artifact[w]
  ELSE IF expected[w] \in {None, file} THEN file ELSE None

\* predict_with_ml: by the rules also when the model fails on this text, is not sure of it,
\* or names a class nobody knows; the artifact stays loaded.
Predict(w) ==
  /\ artifact' = [artifact EXCEPT ![w] = Loaded(w)]
  /\ \E version \in {Loaded(w), None} : used' = [used EXCEPT ![w] = version]
  /\ UNCHANGED <<file, writing, config, expected, saves>>

ArtifactNext ==
  \/ \E v \in Versions : StartSave(v)
  \/ EndSave
  \/ \E v \in Versions \union {None} : Configure(v)
  \/ \E w \in Workers : Restart(w) \/ Predict(w)

ArtifactSpec == ArtifactInit /\ [][ArtifactNext]_artifactVars

-----------------------------------------------------------------------------
(* Properties *)

\* With a version configured no other model classifies, whatever files were
\* written before, during and after the load.
PinnedVersionOnly ==
  \A w \in Workers : expected[w] # None => used[w] \in {None, expected[w]}

=============================================================================
