--------------------- MODULE MCMessageTransceiverThread ---------------------
(* Model-checking instance of MessageTransceiverThread: messages are model *)
(* values; the .cfg files pick the mode and the peer behaviour.            *)
EXTENDS MessageTransceiverThread

CONSTANTS h1, h2, p1, p2

\* The host sends two Messages, the peers two (python_chat.py sends two on
\* Connected); the body of each is an empty Message (12 bytes).
MCHostMsgs == <<h1, h2>>
MCPeerMsgs == <<p1, p2>>
MCBodySize == 2
\* Room for more notification bytes than any run posts: __mainsocket never
\* fills, as with a host that reads it (the socket pair's buffer is some
\* hundred kilobytes).
MCNotifyCap == 16
\* A host that has not read the one byte already waiting: the next
\* notification finds __mainsocket full.
MCNotifyCapFull == 1
\* One Message each way: enough for the questions of eventual progress.
MCHostMsgs1 == <<h1>>
MCPeerMsgs1 == <<p1>>
=============================================================================
