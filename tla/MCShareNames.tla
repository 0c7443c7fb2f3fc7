---------------------------- MODULE MCShareNames ----------------------------
(* An instance of ShareNames for TLC.                                      *)
EXTENDS ShareNames

\* D:\, C:\t, D:\T, E:\t and E:\d_t, whose base name is what D:\T flattens to.
MCFolders ==
  {<< <<"D:">> >>, << <<"C:">>, <<"t">> >>, << <<"D:">>, <<"T">> >>, << <<"E:">>, <<"t">> >>,
   << <<"E:">>, <<"d", "t">> >>}
MCVfsNames == {<<"t">>, <<"v">>}
MCGiven == {<<"T">>, <<"d", "t">>, <<"ipc$">>}
MCCwd == << <<"C:">>, <<"t">> >>
MCDataName == <<"data">>
MCIpcName == <<"IPC$">>

Words == {"C:", "D:", "E:", "c:", "d:", "e:", "c", "d", "e", "T", "t", "v", "data", "IPC$", "ipc$"}
MCToLower ==
  [w \in Words |-> CASE w = "C:" -> "c:" [] w = "D:" -> "d:" [] w = "E:" -> "e:" [] w = "T" -> "t"
                     [] w = "IPC$" -> "ipc$" [] OTHER -> w]
MCNoColon == [w \in Words |-> CASE w = "c:" -> "c" [] w = "d:" -> "d" [] w = "e:" -> "e" [] OTHER -> w]
MCDrives == {"C:", "D:", "E:"}
=============================================================================
