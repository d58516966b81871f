------------------------------- MODULE Console -------------------------------
(***************************************************************************)
(* The SERVER_CONSOLE scene of main.cpp: one frame looks for a click on    *)
(* the cross and then does what loadingStatus says, which starts, polls or *)
(* closes the server and prints what happened.  The network runs beside    *)
(* it.  The scene is never left: there is no way back to the menu.         *)
(***************************************************************************)
EXTENDS Server, ConsoleText

VARIABLES
  loadingStatus,  \* "LS_START", "LS_UPDATE", "LS_NOP"; LS_CLOSE does not
                  \* outlive the frame that sets it
  status,         \* the status box
  crashed         \* a method of a peer that does not exist has been called

consoleVars == <<loadingStatus, status, crashed>>
sceneVars == <<serverVars, textVars, consoleVars>>

ConsoleInit ==
  /\ ServerInit /\ TextInit
  /\ loadingStatus = "LS_START" /\ status = "" /\ crashed = FALSE

\* The line Receive returns for a packet; the text of a message is not shown.
TextOf(packet) ==
  IF packet.kind \in {"incompatible", "message"} THEN <<packet.kind>>
                                                 ELSE <<packet.kind, packet.from>>

\* Every line the scene can print, and the row that has none.
ConsoleLine == {Blank, <<"Starting server...">>, <<"Server closed">>}
               \union {TextOf(packet) : packet \in Packet}

ASSUME ConsoleAssumption ==
  /\ <<"Starting server...">> \in Line /\ <<"Server closed">> \in Line
  /\ \A packet \in Packet : TextOf(packet) \in Line

-----------------------------------------------------------------------------
StartFrame ==
  /\ ~crashed /\ loadingStatus = "LS_START"
  /\ PrintLine(<<"Starting server...">>)
  /\ status' = "starting"
  /\ ServerStart
  /\ loadingStatus' = "LS_UPDATE"
  /\ UNCHANGED crashed

UpdateFrame ==
  /\ ~crashed /\ loadingStatus = "LS_UPDATE"
  /\ status' = "running"
  /\ \/ ReceivePacket  /\ PrintLine(TextOf(Head(queue)))
     \/ ReceiveNothing /\ UNCHANGED textVars
  /\ UNCHANGED <<loadingStatus, crashed>>

\* Mutant of CloseFrame: the status stays LS_UPDATE when the server is gone.
CloseAndPoll ==
  /\ ~crashed /\ loadingStatus = "LS_UPDATE"
  /\ ServerDestroy
  /\ PrintLine(<<"Server closed">>)
  /\ status' = "closed"
  /\ UNCHANGED <<loadingStatus, crashed>>
\* Mutant of CloseFrame: the server is not destroyed.
CloseKeepsServer ==
  /\ ~crashed /\ loadingStatus = "LS_UPDATE"
  /\ UNCHANGED <<serverVars, crashed>>
  /\ PrintLine(<<"Server closed">>)
  /\ status' = "closed"
  /\ loadingStatus' = "LS_NOP"
\* A click on the cross: whatever the status was, the frame closes the server.
CloseFrame ==
  /\ ~crashed /\ loadingStatus = "LS_UPDATE"
  /\ ServerDestroy
  /\ PrintLine(<<"Server closed">>)
  /\ status' = "closed"
  /\ loadingStatus' = "LS_NOP"
  /\ UNCHANGED crashed

\* The click in the first frame of the scene: server is still a null pointer.
CloseBeforeStart ==
  /\ ~crashed /\ loadingStatus = "LS_START"
  /\ crashed' = TRUE
  /\ UNCHANGED <<serverVars, textVars, loadingStatus, status>>

Frame == StartFrame \/ UpdateFrame \/ CloseFrame \/ CloseBeforeStart
ConsoleNext == Frame \/ (~crashed /\ Network /\ UNCHANGED <<textVars, consoleVars>>)

\* The main loop runs a frame 60 times a second.
ConsoleSpec == ConsoleInit /\ [][ConsoleNext]_sceneVars /\ WF_sceneVars(StartFrame \/ UpdateFrame)

-----------------------------------------------------------------------------
ConsoleTypeOK ==
  /\ ServerTypeOK /\ TextTypeOK
  /\ loadingStatus \in {"LS_START", "LS_UPDATE", "LS_NOP"}
  /\ status \in {"", "starting", "running", "closed"}
  /\ crashed \in BOOLEAN

\* While the status has the frame call Receive, and while a click has it call
\* Destroy, there is a peer to call.
ServerPointerLive == loadingStatus = "LS_UPDATE" => peer \in {"idle", "active"}

\* When the server is closed the console says so in its last row, the peer is
\* gone, and nothing is left in its queue for a frame to show after that.
ClosedIsLast ==
  loadingStatus = "LS_NOP" =>
    /\ peer = "destroyed" /\ connected = {} /\ queue = << >>
    /\ Shown # << >> /\ Shown[Len(Shown)] = <<"Server closed">>

\* Every message that waits in the queue is relayed to each client connected by
\* then, unless that client leaves or the server is closed first.
MessageReaches ==
  \A n \in 1 .. MaxPackets : \A c \in Clients :
    (/\ c \in connected
     /\ \E i \in 1 .. Len(queue) :
          queue[i].number = n /\ queue[i].kind = "message" /\ queue[i].from # c)
      ~> \/ c \notin connected
         \/ \E i \in 1 .. Len(relayed[c]) : relayed[c][i].number = n

\* main.cpp takes the click only after it did "Make sure, that the server is
\* not closed": Destroy is called on a server that is there.
ClosesOnlyAServer == ~crashed

\* RakPeerInterface.h: "Use DeallocatePacket() to deallocate the message after
\* you are done with it".  The packet of an earlier frame is done with.
PacketsGivenBack == allocated <= 1
=============================================================================
