---------------------------- MODULE ImagingEv200 ----------------------------
(***************************************************************************)
(* The settings of the stages of hi3516ev200, where the ISP comes after    *)
(* the capture device.                                                     *)
(***************************************************************************)
EXTENDS Settings

(* HimppVideoISP::Imaging                                                  *)
AntiFlicker ==
    Of("AntiFlicker", {"Mode"}, Live("exposure", "mode"))
    @@ Of("AntiFlicker", {"Frequency"}, Live("exposure", "byte"))

ExposureModes == Of("Exposure", {"Mode", "Priority"}, Live("exposure", "first"))

ExposureRanges ==
    Of("Exposure", {"MinExposureTime", "MaxExposureTime", "MinGain", "MaxGain"},
       Live("exposure", "word"))

ExposureManual ==
    Of("Exposure", {"ExposureTime", "Gain"}, Live("exposure", "word"))
    @@ Of("Exposure", {"Compensation"}, Live("exposure", "byte"))

Iris == Of("Exposure", {"MinIris", "MaxIris", "Iris"}, Stored)

WhiteBalance ==
    Of("WhiteBalance", {"Mode"}, Live("wb", "first"))
    @@ Of("WhiteBalance", {"CbGain", "CrGain"}, Live("wb", "byte"))
    @@ Of("WhiteBalance", {"RGain", "GGain", "BGain"}, Live("wb", "half"))

WideDynamicRange ==
    Of("WideDynamicRange", {"Mode"}, Live("drc", "on"))
    @@ Of("WideDynamicRange", {"Level"}, Live("drc", "half"))

Gamma == Of("Gamma", {"CurveData"}, Live("gamma", "curve"))

\* The colours are set by the ISP here, and not at its start.
Colours ==
    Of("Imaging", {"Brightness", "Contrast", "Chroma", "Saturation"}, Live("csc", "byte"))

\* The part of doEnableElement() that writes the exposure attribute.
ExposureStart ==
    ({"AntiFlicker"} \X {"Mode", "Frequency"})
    \cup ({"Exposure"} \X {"Mode", "Priority", "MinExposureTime", "MaxExposureTime",
                           "MinGain", "MaxGain", "Compensation", "ExposureTime", "Gain"})

\* The white balance and the dynamic range.
ColourStart ==
    ({"WhiteBalance"} \X {"Mode", "CbGain", "CrGain", "RGain", "GGain", "BGain"})
    \cup ({"WideDynamicRange"} \X {"Mode", "Level"})

\* The gamma curve.
GammaStart == {"Gamma"} \X {"CurveData"}

ISP ==
    LET settings == AntiFlicker @@ ExposureModes @@ ExposureRanges @@ ExposureManual
                    @@ Iris @@ WhiteBalance @@ WideDynamicRange @@ Gamma @@ Colours
    IN  Starts(Starts(settings, ExposureStart \cup ColourStart, "always"),
               GammaStart, "read back")

-----------------------------------------------------------------------------
\* HimppViChan::Imaging.  setMode() hands the driver the channel as the pipe and
\* 0 as the channel, setRatio() the other way round.  They mean the same on
\* channel 0; on another setMode() names a pipe that nobody creates, and fails
\* while the channel is up, as any setter may here.
ViChanLDC ==
    Of("LDC", {"Mode"}, Live("ldc", "on")) @@ Of("LDC", {"Ratio"}, Live("ldc", "word"))

MirrorFlip == Of("Imaging", {"Mirror", "Flip"}, Live("channel", "bool"))

ChannelStart == {"Imaging"} \X {"Mirror", "Flip"}

LDCStart == {"LDC"} \X {"Mode", "Ratio"}

ViChan == Starts(Starts(ViChanLDC @@ MirrorFlip, ChannelStart, "needed"), LDCStart, "offline")

\* HimppIrCut
IrCutSettings ==
    Of("IrCutFilter", {"Threshold", "Hysteresis"}, Stored)
    @@ Of("IrCutFilter", {"Brightness"}, Live("irledbr", "word"))

IrCutStart == {<<"IrCutFilter", "Brightness">>}

IrCut == Starts(IrCutSettings, IrCutStart, "always")

Pipe == <<Forwarder, Forwarder, IrCut, ViChan, ISP, Forwarder>>
=============================================================================
