------------------------------ MODULE MCParts ------------------------------
(***************************************************************************)
(* Instances for TLC of the parts that share no state with each other in   *)
(* this model: one of them is chosen in the first state and moves, and the *)
(* variables of the others stay as they are.                               *)
(***************************************************************************)
EXTENDS RbTree, MemPool, StreamPool, ByteStream, MysqlPool, LogFile, SocketSend,
        ShareMem, LogLine, TLC

VARIABLE part

parts == <<part, treeVars, memVars, poolVars, byteVars, mysqlVars, fileVars, sendVars,
           shareVars, lineVars>>

MCInit ==
  /\ part \in {"tree", "mem", "pool", "bytes", "mysql", "file", "send", "share", "line"}
  /\ TreeInit /\ MemInit /\ PoolInit /\ ByteInit /\ MysqlInit /\ FileInit /\ SendInit
  /\ ShareInit /\ LineInit
  /\ part # "bytes" => bs = NewStream(0)
  /\ part # "file" => semid
  /\ part # "share" => windows
  /\ part # "line" => coloured /\ filtered

MCNext ==
  /\ \/ /\ part = "tree" /\ TreeNext
        /\ UNCHANGED <<memVars, poolVars, byteVars, mysqlVars, fileVars, sendVars, shareVars, lineVars>>
     \/ /\ part = "mem" /\ MemNext
        /\ UNCHANGED <<treeVars, poolVars, byteVars, mysqlVars, fileVars, sendVars, shareVars, lineVars>>
     \/ /\ part = "pool" /\ PoolNext
        /\ UNCHANGED <<treeVars, memVars, byteVars, mysqlVars, fileVars, sendVars, shareVars, lineVars>>
     \/ /\ part = "bytes" /\ ByteNext
        /\ UNCHANGED <<treeVars, memVars, poolVars, mysqlVars, fileVars, sendVars, shareVars, lineVars>>
     \/ /\ part = "mysql" /\ MysqlNext
        /\ UNCHANGED <<treeVars, memVars, poolVars, byteVars, fileVars, sendVars, shareVars, lineVars>>
     \/ /\ part = "file" /\ FileNext
        /\ UNCHANGED <<treeVars, memVars, poolVars, byteVars, mysqlVars, sendVars, shareVars, lineVars>>
     \/ /\ part = "send" /\ SendNext
        /\ UNCHANGED <<treeVars, memVars, poolVars, byteVars, mysqlVars, fileVars, shareVars, lineVars>>
     \/ /\ part = "share" /\ ShareNext
        /\ UNCHANGED <<treeVars, memVars, poolVars, byteVars, mysqlVars, fileVars, sendVars, lineVars>>
     \/ /\ part = "line" /\ LineNext
        /\ UNCHANGED <<treeVars, memVars, poolVars, byteVars, mysqlVars, fileVars, sendVars, shareVars>>
  /\ UNCHANGED part

MCSpec == MCInit /\ [][MCNext]_parts

\* Loaders and files are told apart only by their names.
MCPartsSymmetry == Permutations(Loaders) \cup Permutations(Names)

\* The values of the constants that a configuration cannot write.
MCNumbers == {-1, 1, 7}
MCDoubles == {-1, 0, 1, 2, 4, 6, 8}
MCFloats == {-1, 0, 1, 2, 4, 8}
MCTexts == {<< >>, <<1>>, <<2, 0>>}
MCContents == {<<1>>, <<5, 0, 6>>}
MCColour == <<"esc", "red">>
MCColourEnd == <<"esc">>
MCNewline == <<"newline">>
MCHeads == {<<"head">>, <<"head", "key">>}
MCLogTexts == {<< >>, <<"key">>, <<"text", "key">>, <<"text", "text", "key">>,
               <<"text", "text", "text", "key">>, <<"text", "text", "text", "text", "text">>}

=============================================================================
