------------------------------- MODULE MCScan -------------------------------
(***************************************************************************)
(* Small instances of ScanReconciler.                                       *)
(***************************************************************************)
EXTENDS ScanProperties

ReadAndWriteHook(n, p) == [name |-> n, type |-> "ReadAndWrite", prio |-> p]
ReadOnlyHook(n, p) == [name |-> n, type |-> "ReadOnly", prio |-> p]

NoHookNames == {}
NoHooks == {<<>>}

OneHookName == {"update"}
OneHook == {<<ReadAndWriteHook("update", 0)>>}

(* Two ReadAndWrite hooks before a ReadOnly one; two ReadOnly hooks side by  *)
(* side before a ReadAndWrite hook of lower priority; priorities against the *)
(* order of the list.                                                        *)
ThreeHookNames == {"cascade", "enrich", "notify"}
ThreeHooks ==
    {<<ReadAndWriteHook("cascade", 0), ReadOnlyHook("notify", 0), ReadAndWriteHook("enrich", 0)>>,
     <<ReadAndWriteHook("enrich", 0), ReadOnlyHook("cascade", 1), ReadOnlyHook("notify", 1)>>}
=============================================================================
