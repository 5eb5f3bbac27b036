---------------------------- MODULE CampaignFiles ----------------------------
(***************************************************************************)
(* The files of one campaign id on one machine: savers write its record    *)
(* (CampaignStore), and `svtorture dashboard bundle` loads a record and  *)
(* makes a bundle of it (BundleExport): the record saved here, or one of   *)
(* the same id from another checkout or a downloaded artifact.  Aggregates *)
(* of the same inputs have one id and can differ in the order of their     *)
(* results, so that the records of one id need not agree.                  *)
(***************************************************************************)
EXTENDS CampaignStore

CONSTANTS
  Exporters,   \* processes that export the record
  Others,      \* processes that export a record kept elsewhere
  OtherRecord  \* the record each of them loads

ASSUME CampaignFilesAssumption ==
  /\ Exporters \cap Others = {}
  /\ \A x \in Others : OtherRecord[x] # Nothing

VARIABLES destination, tree, temporary, at, told, bundles, trouble

bundle == <<destination, tree, temporary, at, told, bundles, trouble>>

Placers == Exporters \cup Others

Bundle == INSTANCE BundleExport WITH
  Writers <- Placers, pc <- at, answer <- told, loaded <- bundles,
  failures <- trouble

\* load_campaign accepts the record: neither missing nor torn.
Loadable == file \notin {Nothing, Torn}

Export(x) ==
  Loadable /\ Bundle!Build(x, file) /\ UNCHANGED vars

ExportOther(x) == Bundle!Build(x, OtherRecord[x]) /\ UNCHANGED vars

Place(x) == Bundle!Exporter(x) /\ UNCHANGED vars

FilesInit == Init /\ Bundle!Init

FilesNext ==
  \/ Next /\ UNCHANGED bundle
  \/ \E x \in Exporters : Export(x)
  \/ \E x \in Others : ExportOther(x)
  \/ \E x \in Placers : Place(x)
  \/ Bundle!Load /\ UNCHANGED vars

Going(x) == Bundle!Exists(x) \/ Bundle!Replace(x)
Retried(x) == told[x] = "refused" /\ Bundle!Retry(x)

FilesSafety == FilesInit /\ [][FilesNext]_<<vars, bundle>>

\* A process that has begun goes on, and one whose export failed is started
\* again until it is answered.
FilesSpec ==
  /\ FilesSafety
  /\ \A x \in Placers :
       /\ WF_<<vars, bundle>>(Going(x) /\ UNCHANGED vars)
       /\ WF_<<vars, bundle>>(Retried(x) /\ UNCHANGED vars)
  /\ \A x \in Exporters : WF_<<vars, bundle>>(Export(x))
  /\ \A x \in Others : WF_<<vars, bundle>>(ExportOther(x))

-----------------------------------------------------------------------------
(* Properties. *)

\* An exporter that was told its bundle is stored can rely on it for good: the
\* bundle under the id is of the record under the id, whoever else saved,
\* exported or died meanwhile.
ExportedIsTheRecord ==
  \A x \in Exporters : told[x] = "stored" => destination = file

\* The bundle directory is written once and read whole.
BundleIsWriteOnce == Bundle!BundleIsWriteOnce

\* However often exports fail or race, once it can load its record each
\* exporter is told "stored", unless a different tree has
\* the id: what a killed process leaves in the way blocks nobody.
EveryExportSettles ==
  \A x \in Placers :
    (x \in Exporters => Loadable)
      ~> (told[x] = "stored" \/ destination \notin {Nothing, tree[x]})

=============================================================================
