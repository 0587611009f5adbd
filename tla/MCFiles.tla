------------------------------ MODULE MCFiles ------------------------------
(* The file stores for MCStorage: AssetVolume and FileCatalog.  A          *)
(* behaviour runs the volume, the uploads or the listing, `focus', and     *)
(* leaves the rest alone.                                                  *)
EXTENDS AssetVolume, FileCatalog

VARIABLE focus

CONSTANTS kA, kB, dg, u1, u2

MCAssetKeys == {kA, kB}
MCAssetDigests == {dg}
MCAssetDescriptors ==
  {[key |-> kA, media |-> "pdf"], [key |-> kA, media |-> "png"], [key |-> kB, media |-> "pdf"]}
MCAssetDigestOf == [k \in {kA, kB} |-> dg]

\* Two keys; under the first a request that names its digest, one that does not,
\* and one for another media.
MCFileRequests ==
  {[key |-> "k1", media |-> "pdf", expects |-> "any"],
   [key |-> "k1", media |-> "pdf", expects |-> "d1"],
   [key |-> "k2", media |-> "png", expects |-> "any"]}

filesVars == <<assetVars, catalogVars>>

FilesInit == AssetInit /\ CatalogInit

\* One uploader, one content per key, and the commitment key as it is: deletions and
\* the walk are what matters.
Quiet ==
  /\ keyVersion' = keyVersion
  /\ \A u \in Uploads : up'[u] # IdleUpload =>
       /\ u = u1 /\ up'[u].q.expects = "any"
       /\ up'[u].digest = IF up'[u].q.key = "k1" THEN "d1" ELSE "d2"

FilesNext ==
  \/ focus = "volume" /\ AssetNext /\ UNCHANGED catalogVars
  \/ /\ focus # "volume" /\ CatalogNext /\ UNCHANGED assetVars
     /\ focus = "uploads" => UNCHANGED <<del, walk>>
     /\ focus = "listing" => Quiet

=============================================================================
