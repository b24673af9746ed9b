--------------------------- MODULE RuntimeRecords ---------------------------
(***************************************************************************)
(* The latest record of a source in core/storage/sqlite_runtime_repo.py:   *)
(* what the writes of the runtime store make of it.  Every write runs      *)
(* under the lock of the repository, in one transaction.                   *)
(*                                                                         *)
(* Abstractions: payload, message, interaction and error text are left     *)
(* out; error and suspended are one status, "failed": neither the store    *)
(* nor the scheduler treats them differently.                              *)
(***************************************************************************)
EXTENDS Integers

CONSTANTS
    Codes,      \* error codes
    NoCode,     \* a record without error_code
    NoMeta,     \* a record without retry_metadata
    NoRecord    \* a source without a record

NoTime == -1    \* a record without last_success_at

\* retry_metadata: the retries of one failure signature
Meta == [signature: Codes, attempts: Nat, first: Nat, next: Nat \cup {NoTime}]

Record == [status: {"active", "refreshing", "failed"},
           code: Codes \cup {NoCode}, updated: Nat,
           success: Nat \cup {NoTime}, meta: Meta \cup {NoMeta}]

ASSUME RecordAssumption == NoRecord \notin Record
ASSUME MetaAssumption == NoMeta \notin Meta
ASSUME CodeAssumption == NoCode \notin Codes

\* upsert, and the state "active" the executor sets right after it: a
\* success replaces the whole record, its retry metadata included.
Succeeded(time) ==
    [status |-> "active", code |-> NoCode, updated |-> time, success |-> time,
     meta |-> NoMeta]

\* set_state: the rest of the record stays, the error code too when a failure
\* is reported without one.
WithState(record, status, code, time) ==
    IF record = NoRecord
    THEN [status |-> status, code |-> code, updated |-> time,
          success |-> NoTime, meta |-> NoMeta]
    ELSE [record EXCEPT
            !.status = status,
            !.code = IF status = "failed" /\ code = NoCode THEN @ ELSE code,
            !.updated = time]

\* set_retry_metadata and clear_retry_metadata: nothing without a record
WithMeta(record, meta) ==
    IF record = NoRecord THEN NoRecord ELSE [record EXCEPT !.meta = meta]

=============================================================================
