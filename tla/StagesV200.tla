---------------------------- MODULE StagesV200 -----------------------------
(***************************************************************************)
(* The stages of hi3518v200: the ISP comes first, and sets the attributes  *)
(* of the MIPI receiver, which nothing gives back.                         *)
(***************************************************************************)
EXTENDS Scripts

\* HimppSysctl
Sysctl == Stage(
    <<Free({"sys", "vb"}), Check(<<>>), Get("vb", <<>>), Check(<<{"vb"}>>),
      Get("sys", <<{"vb"}>>)>>,
    <<{"sys"}, {"vb"}>>)

\* HimppVideoISP: initializeMipi()
InitializeMipi == <<Check(<<>>)>>

\* loadSensorModule()
LoadSensorModule ==
    <<Get("library", <<>>), Check(<<{"library"}>>), Get("callbacks", <<{"library"}>>)>>

UnloadSensorModule == <<{"callbacks"}, {"library"}>>

\* The label that a failure is sent to unloads the module, nothing else: the
\* libraries registered before stay.
RegisterAlgorithm ==
    <<Get("ae", UnloadSensorModule), Get("awb", UnloadSensorModule),
      Get("af", UnloadSensorModule)>>

UnregisterAlgorithm == <<{"ae"}, {"awb"}, {"af"}>>

\* The gamma curve throws past all labels; doDisableElement() joins the thread
\* last.
ISP ==
    LET labels == UnregisterAlgorithm \o UnloadSensorModule
        exit == <<{"isp", "isp memory"}>>
    IN  Stage(
          InitializeMipi \o LoadSensorModule \o RegisterAlgorithm \o
          <<Get("isp memory", labels), Check(labels), Check(labels), Get("isp", labels),
            Step({"thread", "run"}, {}, TRUE, exit \o labels), Check(<<>>)>>,
          exit \o labels \o <<{"thread", "run"}>>)

\* HimppViDev
ViDev == Stage(<<Check(<<>>), Get("dev", <<>>)>>, <<{"dev"}>>)

\* HimppViChan
ViChan == Restarted(<<Check(<<>>), Get("vichn", <<>>)>>, <<{"vichn"}>>)

\* HimppVpssGroup
VpssGroup == Stage(
    <<Get("group", <<>>), Get("group started", <<{"group"}>>),
      Get("group bound", <<{"group started"}, {"group"}>>)>>,
    <<{"group bound"}, {"group started"}, {"group"}>>)

\* HimppVpssChan
VpssChan == Stage(<<Check(<<>>), Check(<<>>), Get("vpchn", <<>>)>>, <<{"vpchn"}>>)

-----------------------------------------------------------------------------
\* HimppAudioCodec: the device is open during doEnableElement() only.
AudioCodec == Stage(
    <<Get("codec", <<>>), Check(<<{"codec"}>>), Check(<<{"codec"}>>),
      Check(<<{"codec"}>>), Free({"codec"})>>,
    <<{"codec"}>>)

\* HimppAiDev
AiDev == Stage(<<Check(<<>>), Get("aidev", <<>>)>>, <<{"aidev"}>>)

\* HimppAiChan: voice quality enhancement is compiled out of the start only.
AiChan == Stage(<<Get("aichn", <<>>)>>, <<{"vqe"}, {"aichn"}>>)

\* HimppAencChan
AencChan == Stage(
    <<Get("aenc", <<>>), Get("aenc bound", <<{"aenc"}>>)>>,
    <<{"aenc bound"}, {"aenc"}>>)

\* HimppAoDev
AoDev == Stage(<<Check(<<>>), Get("aodev", <<>>)>>, <<{"aodev"}>>)

\* HimppAoChan
AoChan == Stage(<<Get("aochn", <<>>)>>, <<{"aochn"}>>)

\* HimppAdecChan
AdecChan == Stage(
    <<Get("adec", <<>>), Get("adec bound", <<{"adec"}>>)>>,
    <<{"adec bound"}, {"adec"}>>)

-----------------------------------------------------------------------------
Pipes ==
    {<<Sysctl>>,
     <<ISP, ViDev, ViChan, VpssGroup, VpssChan>>,
     <<AudioCodec, AiDev, AiChan, AencChan>>,
     <<AudioCodec, AoDev, AoChan, AdecChan>>}
=============================================================================
