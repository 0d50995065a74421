------------------------------ MODULE FeedLoop ------------------------------
(***************************************************************************)
(* The recognizer under its synchronous client, the test program of        *)
(* srec/test/SRecTest: one thread that starts the recognizer, feeds it a   *)
(* buffer of a file at a time and advances it after each, flushes it at    *)
(* the end of the file, and stops it.                                      *)
(***************************************************************************)
EXTENDS Recognizer

VARIABLES client,        \* where srec_test_recognize_pcm_file is
          hitEof         \* hit_eof: the last buffer of the file has been put

clientVars == <<client, hitEof>>
feedVars == <<vars, clientVars>>

Places == {"start", "feed", "advance", "flush", "stop"}

FeedInit == Init /\ client = "start" /\ hitEof = FALSE

(* A recognizer that does not start is not stopped: the next file tries again. *)
FeedStart == /\ client = "start"
             /\ StartCall
             /\ client' = IF rc' = "SUCCESS" THEN "feed" ELSE "start"
             /\ hitEof' = FALSE

(* srec_test_get_audio_from_file and the put of srec_test_feed_recognizer:  *)
(* an empty read is the end of the file, and is put as the last buffer.     *)
FeedPut(n, eof) ==
  /\ client = "feed" /\ pc = "idle" /\ put = "idle"
  /\ eof <=> (n = 0)
  /\ PutAudio(n, eof)
  /\ client' = IF putRc' = "SUCCESS" THEN "advance" ELSE "stop"
  /\ hitEof' = eof

FeedPutLast == client = "advance" /\ PutLast /\ UNCHANGED clientVars

(* Where the client goes when its call of Advance is over. *)
Returned == pc' = "idle"

(* Faulty, used by no action: the loop left after one frame. *)
AfterOneAdvance == IF ~Returned THEN "advance"
                   ELSE IF rc' # "SUCCESS" \/ status' \in Complete THEN "stop"
                   ELSE IF hitEof THEN "flush"
                   ELSE "feed"

AfterFeeding == IF ~Returned THEN "advance"
                ELSE IF rc' # "SUCCESS" THEN "stop"
                ELSE IF status' = "INCOMPLETE" THEN "advance"
                ELSE IF status' \in Complete THEN "stop"
                ELSE IF hitEof THEN "flush"
                ELSE "feed"

AfterFlushing == IF Returned /\ (status' \in Complete \/ rc' # "SUCCESS")
                 THEN "stop" ELSE "flush"

Advances == put = "idle" /\ (AdvanceCall \/ Proceed)

(* the do ... while of srec_test_feed_recognizer *)
FeedAdvance == client = "advance" /\ Advances /\ client' = AfterFeeding /\ UNCHANGED hitEof

(* srec_test_flush_audio *)
FlushAdvance == client = "flush" /\ Advances /\ client' = AfterFlushing /\ UNCHANGED hitEof

FeedStop == /\ client = "stop"
            /\ StopCall \/ Proceed
            /\ client' = IF Returned THEN "start" ELSE "stop"
            /\ UNCHANGED hitEof

FeedNext == \/ FeedStart
            \/ \E n \in PutSizes, eof \in BOOLEAN : FeedPut(n, eof)
            \/ FeedPutLast
            \/ FeedAdvance
            \/ FlushAdvance
            \/ FeedStop

(* One thread that runs: it takes its next step. *)
FeedSpec == FeedInit /\ [][FeedNext]_feedVars /\ WF_feedVars(FeedNext)
-----------------------------------------------------------------------------
(* The loop of srec_test_feed_recognizer ends: Advance does not answer      *)
(* INCOMPLETE for ever to a client that brings no audio until it answers    *)
(* something else (SRecTest.c:2173-2185).                                   *)
FeedReturns == client = "advance" ~> client # "advance"

(* The loop of srec_test_flush_audio ends: after the end of the file        *)
(* Advance comes to a complete result (SRecTest.c:2206-2216).               *)
FlushEnds == client = "flush" ~> client = "stop"

(* The ring never overflows although the client does not wait for it to     *)
(* drain: only three answers leave audio in it, each once an utterance, so  *)
(* four buffers are enough (RecognizerImpl.c:1755).                         *)
NeverOverflows == lock = "free"

(* A client of one thread never starts an utterance on the audio of the     *)
(* last one, nor, by LastFrameBelongs, on its end.                          *)
FreshRing == ~isStarted => (size = 0 /\ utt.ahead + utt.behind = 0)
=============================================================================
