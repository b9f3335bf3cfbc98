---------------------------- MODULE MCChatClient ----------------------------
EXTENDS ChatClient
=============================================================================
