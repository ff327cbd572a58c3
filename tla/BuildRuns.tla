----------------------------- MODULE BuildRuns -----------------------------
(***************************************************************************)
(* What a build run is: its identifier, its status and its database row    *)
(* (control-plane/app/db/models/build_run.py and enums.py).                *)
(***************************************************************************)
CONSTANT Builds   \* identifiers of build runs, the uuid4 values ever drawn

(* ABSENT: no committed row, the build was never started or rolled back.   *)
(* UPDATING exists in the enumeration and nothing ever writes it.          *)
Statuses == {"ABSENT", "QUEUED", "PROVISIONING", "BUILDING", "TESTING",
             "REVIEW", "LIVE", "FAILED", "CANCELLED"}

(* _TERMINAL of cancel_build and delete_build.                             *)
Terminal == {"LIVE", "FAILED", "CANCELLED"}

(* deleted stands for a deleted_at that is set.                            *)
BuildRows == [status : Statuses, deleted : BOOLEAN]
=============================================================================
