---------------------------- MODULE MCQueueItem -----------------------------
EXTENDS QueueItem
MCParts == {{<<0, 1>>}, {<<1, 2>>}}
=============================================================================
