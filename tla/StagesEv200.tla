---------------------------- MODULE StagesEv200 -----------------------------
(***************************************************************************)
(* The stages of hi3516ev200: the capture device opens the MIPI receiver   *)
(* and the pipe that the ISP, its reader, runs on.                         *)
(***************************************************************************)
EXTENDS Scripts

\* HimppSysctl
Sysctl == Stage(
    <<Free({"sys", "vb"}), Check(<<>>), Get("vb", <<>>), Check(<<{"vb"}>>),
      Get("sys", <<{"vb"}>>)>>,
    <<{"sys"}, {"vb"}>>)

\* HimppViDev: initializeMipi() gives up at the first ioctl() that fails.
InitializeMipi ==
    <<Check(<<>>), Get("mipi clock", <<>>), Get("sensor clock", <<>>),
      Check(<<>>), Get("mipi", <<>>), Get("sensor", <<>>)>>

CleanupMipi == <<{"sensor"}, {"sensor clock"}, {"mipi"}, {"mipi clock"}>>

\* Once the receiver is up no failure cleans it up; that of StartPipe leaves
\* the pipe.
ViDev == Stage(
    InitializeMipi \o
    <<Check(<<>>), Get("dev", <<>>), Check(<<{"dev"}>>),
      Get("pipe", <<{"dev"}>>), Get("pipe started", <<{"dev"}>>)>>,
    <<{"pipe started"}, {"pipe"}, {"dev"}>> \o CleanupMipi)

\* HimppVideoISP: loadSensorModule()
LoadSensorModule ==
    <<Get("library", <<>>), Check(<<{"library"}>>), Get("callbacks", <<{"library"}>>)>>

UnloadSensorModule == <<{"callbacks"}, {"library"}>>

\* The label that a failure is sent to unloads the module, nothing else: AE
\* stays when AWB fails.
RegisterAlgorithm ==
    <<Get("ae", UnloadSensorModule), Get("awb", UnloadSensorModule)>>

UnregisterAlgorithm == <<{"ae"}, {"awb"}>>

\* The thread is running when doEnableElement() asks for the gamma curve,
\* which throws past all labels when the driver does not have it.
ISP ==
    LET labels == UnregisterAlgorithm \o UnloadSensorModule
        exit == <<{"isp", "isp memory"}>>
    IN  Stage(
          LoadSensorModule \o RegisterAlgorithm \o
          <<Get("isp memory", labels), Check(labels), Get("isp", labels),
            Step({"thread", "run"}, {}, TRUE, exit \o labels), Check(<<>>)>>,
          exit \o <<{"thread", "run"}>> \o labels)

\* HimppViChan
ViChan == Restarted(<<Check(<<>>), Get("vichn", <<>>)>>, <<{"vichn"}>>)

\* HimppVpssGroup
VpssGroup == Stage(
    <<Get("group", <<>>), Get("group started", <<{"group"}>>),
      Get("group bound", <<{"group started"}, {"group"}>>)>>,
    <<{"group bound"}, {"group started"}, {"group"}>>)

\* HimppVpssChan
VpssChan == Stage(<<Check(<<>>), Get("vpchn", <<>>)>>, <<{"vpchn"}>>)

-----------------------------------------------------------------------------
\* HimppAudioCodec: the device is open during doEnableElement() only.
AudioCodec == Stage(
    <<Get("codec", <<>>), Check(<<{"codec"}>>), Check(<<{"codec"}>>),
      Check(<<{"codec"}>>), Free({"codec"})>>,
    <<{"codec"}>>)

\* HimppAiDev
AiDev == Stage(<<Check(<<>>), Get("aidev", <<>>)>>, <<{"aidev"}>>)

\* HimppAiChan: voice quality enhancement is optional.
AiChan == Stage(<<Get("aichn", <<>>), Try("vqe")>>, <<{"vqe"}, {"aichn"}>>)

\* HimppAencChan
AencChan == Stage(
    <<Get("aenc", <<>>), Get("aenc bound", <<{"aenc"}>>)>>,
    <<{"aenc bound"}, {"aenc"}>>)

\* HimppAoDev
AoDev == Stage(<<Check(<<>>), Get("aodev", <<>>)>>, <<{"aodev"}>>)

\* HimppAoChan
AoChan == Stage(<<Get("aochn", <<>>)>>, <<{"aochn"}>>)

\* HimppAdecChan
AdecChan == Stage(
    <<Get("adec", <<>>), Get("adec bound", <<{"adec"}>>)>>,
    <<{"adec bound"}, {"adec"}>>)

-----------------------------------------------------------------------------
Pipes ==
    {<<Sysctl>>,
     <<ViDev, ISP, ViChan, VpssGroup, VpssChan>>,
     <<AudioCodec, AiDev, AiChan, AencChan>>,
     <<AudioCodec, AoDev, AoChan, AdecChan>>}
=============================================================================
